---- MODULE Spec2Model ----
(***************************************************************************)
(* A model of the wust-socket connection engine (src/src/ws) and of its    *)
(* frame decoder (src/src/frames/decode.rs).                               *)
(*                                                                         *)
(* The engine is four sequential processes around one transport: the       *)
(* caller holding the WebSocket handle, the writer task, the keepalive     *)
(* task and the reader task.  A process takes one step per operation on    *)
(* shared state: a channel send that follows a flag update or a decoded    *)
(* frame is a step of its own (the process's *pend variable holds it), so  *)
(* the other tasks interleave between the two.  Frames are records         *)
(* [op, fin, rsv1, payload] with payload a sequence of bytes; events are   *)
(* records [ev, data].  The peer is free: what a read returns (frames,     *)
(* EOF, an error) and whether a write succeeds are chosen at the read and  *)
(* at the write.                                                           *)
(***************************************************************************)
EXTENDS Integers, Sequences, FiniteSets, TLC

VARIABLES
    cfg,          \* construction parameters [compressed, use_context]
    closing,      \* Inner.closing
    closed,       \* Inner.closed
    close_q,      \* frames queued on the close channel
    ctrl_q,       \* frames queued on the control channel
    data_q,       \* frames queued on the data channel
    evlog,        \* every event placed on the event channel, in order
    nrecv,        \* how many of them the caller has received
    wpc,          \* writer task: "run", "done"
    wire,         \* frames written to the transport, in order
    wshut,        \* the writer called shutdown() on the transport
    wfail,        \* history: a write to the transport returned an error
    wbypass,      \* history: a frame was written ahead of a queued data frame
    rpc,          \* reader task: "read", "decode", "done", "panicked"
    rpend,        \* the reader's pending channel sends
    fdbuf,        \* FrameDecoder.buf, as the items not yet decoded
    partial_msg,  \* the reassembly buffer
    term,         \* history: the reader handled a peer Close or an error
    ppc,          \* keepalive task: "tick", "done"
    ppend,        \* the keepalive task's pending channel sends
    ping_sent,    \* ping_loop's local ping_sent.is_some()
    last_nonce,   \* PingStats.last_nonce
    history,      \* PingStats.history (-1 is None)
    idx,          \* PingStats.idx
    unanswered,   \* history: nonces of the Pings enqueued and not yet answered
    upc,          \* caller: "idle", "dropped"
    upend,        \* the caller's pending channel sends
    ops,          \* API calls made so far
    last_call,    \* history: the last API call and what it returned
    sentlog,      \* history: every fragment enqueued on the data channel
    nin,          \* items the peer has sent so far
    dec           \* byte-level decoder state (decoder specification)

flags == <<closing, closed>>
chans == <<close_q, ctrl_q, data_q, evlog>>
writerVars == <<wpc, wire, wshut, wfail, wbypass>>
readerVars == <<rpc, rpend, fdbuf, partial_msg, term, nin>>
pingVars == <<ppc, ppend, ping_sent>>
stats == <<last_nonce, history, idx, unanswered>>
userVars == <<upc, upend, ops, last_call, nrecv, sentlog>>

engineVars == <<cfg, flags, chans, writerVars, readerVars, pingVars, stats,
                userVars>>

vars == <<engineVars, dec>>

(***************************************************************************)
(* Bounds of the model.                                                    *)
(***************************************************************************)
\* capacity of each channel (64 in the code, scaled down)
CHAN_BUF == 2
\* MAX_MESSAGE_SIZE in bytes (16 MiB in the code, scaled down)
MAX_MESSAGE_SIZE == 7
\* MAX_FRAME_PAYLOAD in bytes (16 KiB in the code, scaled down)
MAX_FRAME_PAYLOAD == 5
\* bytes pushed into the decoder
MaxBytes == 8
\* items the peer sends over one connection
MaxIn == 2
\* API calls (send_text, send_bytes, close) the caller makes
MaxOps == 2

(***************************************************************************)
(* Close reasons (error.rs) and the static reason texts, as bytes.         *)
(***************************************************************************)
Normal == 1000
ProtoError == 1002
Rsv == 1004
NoneGiven == 1005
Abnormal == 1006
DataError == 1007
Policy == 1008
TooBig == 1009
Tls == 1015
Unknown == 4000

\* impl From<[u8; 2]> for CloseReason
CloseReasonFrom(b0, b1) ==
    LET v == b0 * 256 + b1
    IN  IF v \in (1000..1011) \cup {1015} THEN v ELSE Unknown

\* "peer closed"
TxtPeerClosed == <<112, 101, 101, 114, 32, 99, 108, 111, 115, 101, 100>>
\* "!invalid close message"
TxtInvalidClose ==
    <<33, 105, 110, 118, 97, 108, 105, 100, 32, 99, 108, 111, 115, 101, 32,
      109, 101, 115, 115, 97, 103, 101>>
\* "Unexpected frame"
TxtUnexpected ==
    <<85, 110, 101, 120, 112, 101, 99, 116, 101, 100, 32, 102, 114, 97, 109, 101>>
\* "Message exceeded maximum size"
TxtMsgTooBig ==
    <<77, 101, 115, 115, 97, 103, 101, 32, 101, 120, 99, 101, 101, 100, 101,
      100, 32, 109, 97, 120, 105, 109, 117, 109, 32, 115, 105, 122, 101>>
\* "Invalid UTF-8"
TxtInvalidUtf8 == <<73, 110, 118, 97, 108, 105, 100, 32, 85, 84, 70, 45, 56>>
\* "bad deflate stream"
TxtBadDeflate ==
    <<98, 97, 100, 32, 100, 101, 102, 108, 97, 116, 101, 32, 115, 116, 114,
      101, 97, 109>>
\* "There was a ws protocol violation."
TxtProto ==
    <<84, 104, 101, 114, 101, 32, 119, 97, 115, 32, 97, 32, 119, 115, 32, 112,
      114, 111, 116, 111, 99, 111, 108, 32, 118, 105, 111, 108, 97, 116, 105,
      111, 110, 46>>
\* "Frame exceeded maximum size"
TxtFrameTooBig ==
    <<70, 114, 97, 109, 101, 32, 101, 120, 99, 101, 101, 100, 101, 100, 32,
      109, 97, 120, 105, 109, 117, 109, 32, 115, 105, 122, 101>>
\* "ping timed out"
TxtPingTimedOut == <<112, 105, 110, 103, 32, 116, 105, 109, 101, 100, 32, 111, 117, 116>>
\* "ping timeout"
TxtPingTimeout == <<112, 105, 110, 103, 32, 116, 105, 109, 101, 111, 117, 116>>

(***************************************************************************)
(* Frames and events.                                                      *)
(***************************************************************************)
Frame(op, fin, rsv1, payload) ==
    [op |-> op, fin |-> fin, rsv1 |-> rsv1, payload |-> payload]

IsControl(op) == op \in {"Close", "Ping", "Pong"}

Min(a, b) == IF a < b THEN a ELSE b

\* ControlFrame::close_reason: the 2-byte big-endian code, then the text cut
\* to 123 bytes (the texts are ASCII: every index is a character boundary)
CloseReasonFrame(reason, text) ==
    Frame("Close", TRUE, FALSE,
          <<reason \div 256, reason % 256>> \o SubSeq(text, 1, Min(Len(text), 123)))

PingFrame(nonce) == Frame("Ping", TRUE, FALSE, nonce)
PongFrame(payload) == Frame("Pong", TRUE, FALSE, payload)

\* PingStats::new: the nonce a Pong must carry before any ping was sent
ZeroNonce == <<0, 0, 0, 0, 0, 0, 0, 0>>
\* the nonce new_nonce draws: eight random bytes, taken to differ from every
\* nonce drawn before (the first one is 00 00 00 00 00 00 00 01)
FreshNonce == [last_nonce EXCEPT ![8] = @ + 1]

IsCloseFrame(f) == f.op = "Close"
CloseCode(f) == f.payload[1] * 256 + f.payload[2]

Event(ev, data) == [ev |-> ev, data |-> data]
ClosedEv == Event("Closed", <<>>)

\* a pending channel send: the channel, the item, and what an Err leads to
Cmd(ch, item, onerr) == [ch |-> ch, item |-> item, onerr |-> onerr]

\* handle_pong holds the ping_stats mutex over the send that follows on_pong
\* (the guard is a temporary of the match scrutinee)
PongHoldsStats ==
    /\ rpend # <<>>
    /\ \/ Head(rpend).ch = "event" /\ Head(rpend).item.ev = "Pong"
       \/ Head(rpend).item = CloseReasonFrame(Policy, TxtPingTimeout)

(***************************************************************************)
(* Channels (tokio mpsc, bounded).  A send fails once the receiver is      *)
(* dropped, suspends while the queue is full, and enqueues otherwise.      *)
(* The three frame channels' receivers live in the writer task; the event  *)
(* channel's receiver lives in the handle.                                 *)
(***************************************************************************)
EventQueue == SubSeq(evlog, nrecv + 1, Len(evlog))

ChanLen(ch) ==
    CASE ch = "close" -> Len(close_q)
      [] ch = "ctrl"  -> Len(ctrl_q)
      [] ch = "data"  -> Len(data_q)
      [] ch = "event" -> Len(evlog) - nrecv

\* the receiving half has been dropped
ChanClosed(ch) == IF ch = "event" THEN upc = "dropped" ELSE wpc = "done"

SendFails(ch) == ChanClosed(ch)
SendFits(ch) == ~ChanClosed(ch) /\ ChanLen(ch) < CHAN_BUF

\* Sender::send succeeding: the item is appended to its channel
Enqueue(ch, item) ==
    /\ close_q' = IF ch = "close" THEN Append(close_q, item) ELSE close_q
    /\ ctrl_q' = IF ch = "ctrl" THEN Append(ctrl_q, item) ELSE ctrl_q
    /\ data_q' = IF ch = "data" THEN Append(data_q, item) ELSE data_q
    /\ evlog' = IF ch = "event" THEN Append(evlog, item) ELSE evlog

\* the senders of the control and close channels: the handle, the reader's
\* WsSender and the keepalive task's WsSender; of the data channel: the handle
ReaderGone == rpc \in {"done", "panicked"} /\ rpend = <<>>
KeepaliveGone == ppc = "done" /\ ppend = <<>>
AllSendersDropped == upc = "dropped" /\ ReaderGone /\ KeepaliveGone

(***************************************************************************)
(* Writer task (WebSocket::writer_loop).                                   *)
(***************************************************************************)
\* a select polling the data queue first
SelectDataFirst ==
    IF data_q # <<>> THEN "data"
    ELSE IF close_q # <<>> THEN "close"
    ELSE IF ctrl_q # <<>> THEN "ctrl"
    ELSE "none"

\* the biased select: close, then control, then data
SelectFrom ==
    IF close_q # <<>> THEN "close"
    ELSE IF ctrl_q # <<>> THEN "ctrl"
    ELSE IF data_q # <<>> THEN "data"
    ELSE "none"

\* a data channel that yields its newest frame
SelectedNewest ==
    CASE SelectFrom = "close" -> Head(close_q)
      [] SelectFrom = "ctrl" -> Head(ctrl_q)
      [] SelectFrom = "data" -> data_q[Len(data_q)]

\* the frame the select yields
Selected ==
    CASE SelectFrom = "close" -> Head(close_q)
      [] SelectFrom = "ctrl" -> Head(ctrl_q)
      [] SelectFrom = "data" -> Head(data_q)

\* a writer that goes on with its loop after a frame of the close queue
WriterWriteOn ==
    /\ wpc = "run"
    /\ SelectFrom # "none"
    /\ \E ok \in BOOLEAN :
          LET stop == ~ok IN
          /\ wire' = IF ok THEN Append(wire, Selected) ELSE wire
          /\ wfail' = (wfail \/ ~ok)
          /\ wbypass' = (wbypass \/ (ok /\ SelectFrom # "data" /\ data_q # <<>>))
          /\ wshut' = (wshut \/ SelectFrom = "close")
          /\ wpc' = IF stop THEN "done" ELSE "run"
          /\ close_q' = IF stop THEN <<>>
                        ELSE IF SelectFrom = "close" THEN Tail(close_q) ELSE close_q
          /\ ctrl_q' = IF stop THEN <<>>
                       ELSE IF SelectFrom = "ctrl" THEN Tail(ctrl_q) ELSE ctrl_q
          /\ data_q' = IF stop THEN <<>>
                       ELSE IF SelectFrom = "data" THEN Tail(data_q) ELSE data_q
    /\ UNCHANGED <<cfg, flags, evlog, readerVars, pingVars, stats, userVars, dec>>

\* One turn of the loop that yields a frame: the frame leaves its queue and
\* is written and flushed; the write succeeds or fails as the transport
\* decides.  After a frame of the close queue the writer shuts the
\* transport down and exits whatever the write returned; a failed control
\* or data write ends the writer.  The receivers are dropped with the task,
\* and with them what was still queued.
WriterWrite ==
    /\ wpc = "run"
    /\ SelectFrom # "none"
    /\ \E ok \in BOOLEAN :
          LET stop == SelectFrom = "close" \/ ~ok IN
          /\ wire' = IF ok THEN Append(wire, Selected) ELSE wire
          /\ wfail' = (wfail \/ ~ok)
          /\ wbypass' = (wbypass \/ (ok /\ SelectFrom # "data" /\ data_q # <<>>))
          /\ wshut' = (wshut \/ SelectFrom = "close")
          /\ wpc' = IF stop THEN "done" ELSE "run"
          /\ close_q' = IF stop THEN <<>>
                        ELSE IF SelectFrom = "close" THEN Tail(close_q) ELSE close_q
          /\ ctrl_q' = IF stop THEN <<>>
                       ELSE IF SelectFrom = "ctrl" THEN Tail(ctrl_q) ELSE ctrl_q
          /\ data_q' = IF stop THEN <<>>
                       ELSE IF SelectFrom = "data" THEN Tail(data_q) ELSE data_q
    /\ UNCHANGED <<cfg, flags, evlog, readerVars, pingVars, stats, userVars, dec>>

\* the select's else branch: every channel is closed and empty
WriterExit ==
    /\ wpc = "run"
    /\ SelectFrom = "none"
    /\ AllSendersDropped
    /\ wpc' = "done"
    /\ UNCHANGED <<cfg, flags, chans, wire, wshut, wfail, wbypass, readerVars,
                   pingVars, stats, userVars, dec>>

(***************************************************************************)
(* The caller (the public API of WebSocket).                               *)
(***************************************************************************)
\* payloads the caller sends
SendPayloads == {<<104>>}

\* all_frames with the first frame at the end of the message
AllFramesFinFirst(op, payload, compressed) ==
    LET k == Len(payload) \div MAX_FRAME_PAYLOAD
    IN  [i \in 1..(k + 1) |->
            Frame(IF i = 1 THEN op ELSE "Cont", i = 1, i = 1 /\ compressed,
                  SubSeq(payload, (i - 1) * MAX_FRAME_PAYLOAD + 1,
                         Min(i * MAX_FRAME_PAYLOAD, Len(payload))))]

\* DataFrame::all_frames: as_chunks yields the full chunks of
\* MAX_FRAME_PAYLOAD bytes, and the remainder (which may be empty) is the
\* FIN frame; the first frame carries the opcode and RSV1, the others are
\* continuations
AllFrames(op, payload, compressed) ==
    LET k == Len(payload) \div MAX_FRAME_PAYLOAD
    IN  [i \in 1..(k + 1) |->
            Frame(IF i = 1 THEN op ELSE "Cont", i = k + 1, i = 1 /\ compressed,
                  SubSeq(payload, (i - 1) * MAX_FRAME_PAYLOAD + 1,
                         Min(i * MAX_FRAME_PAYLOAD, Len(payload))))]

\* DataFrame::encode of a handle without a deflater
EncodeData(op, payload) == AllFrames(op, payload, FALSE)

\* what an API call found (closing, the writer stopped, the reader past a
\* peer Close or an error) and what it returned
Call(op, res) ==
    [op |-> op, res |-> res, closing |-> closing, stopped |-> (wpc = "done"),
     term |-> term]

\* send_data: encode, then send the chunks one after the other, returning
\* at the first send that fails.  The first send is part of the call's step
\* (the call is suspended while the data queue is full), the others are
\* steps of their own; the handle is borrowed mutably until the call returns.
\* the i-th fragment of the message of the call-th call, as the history
\* records it, and the fragment after it
Fragment(call, op, payload, i) == [call |-> call, op |-> op, payload |-> payload, i |-> i]
NextFragment(g) == [g EXCEPT !.i = @ + 1]

SendData(kinds, payloads) ==
    /\ upc = "idle" /\ upend = <<>> /\ ops < MaxOps
    /\ \E op \in kinds, p \in payloads :
          LET chunks == EncodeData(op, p) IN
          \/ /\ SendFits("data")
             /\ Enqueue("data", chunks[1])
             /\ sentlog' = Append(sentlog, Fragment(ops + 1, op, p, 1))
             /\ upend' = [i \in 1..(Len(chunks) - 1) |->
                              Cmd("data", chunks[i + 1], "fail")]
             /\ last_call' = Call("send", IF Len(chunks) = 1 THEN "ok" ELSE "pending")
          \/ /\ SendFails("data")
             /\ UNCHANGED <<chans, upend, sentlog>>
             /\ last_call' = Call("send", "err")
    /\ ops' = ops + 1
    /\ UNCHANGED <<cfg, flags, writerVars, readerVars, pingVars, stats,
                   upc, nrecv, dec>>

\* send_text / send_bytes
UserSend(kinds) == SendData(kinds, SendPayloads)

\* ping(): draw a nonce under the ping_stats mutex, then send the Ping on
\* the control channel
UserPing ==
    /\ upc = "idle" /\ upend = <<>> /\ ops < MaxOps
    /\ ~PongHoldsStats
    /\ last_nonce' = FreshNonce
    /\ upend' = <<Cmd("ctrl", PingFrame(FreshNonce), "fail")>>
    /\ ops' = ops + 1
    /\ last_call' = Call("ping", "pending")
    /\ UNCHANGED <<cfg, flags, chans, writerVars, readerVars, pingVars,
                   history, idx, unanswered, upc, nrecv, sentlog, dec>>

\* a close_reason that stores closing and sends whatever it was
UserCloseAlways ==
    /\ upc = "idle" /\ upend = <<>> /\ ops < MaxOps
    /\ closing' = TRUE
    /\ upend' = <<Cmd("close", CloseReasonFrame(Normal, <<>>), "ignore")>>
    /\ ops' = ops + 1
    /\ last_call' = Call("close", "pending")
    /\ UNCHANGED <<cfg, closed, chans, writerVars, readerVars, pingVars, stats,
                   upc, nrecv, sentlog, dec>>

\* close() = close_reason(Normal, ""): swap closing, and send only if it was unset
UserClose ==
    /\ upc = "idle" /\ upend = <<>> /\ ops < MaxOps
    /\ closing' = TRUE
    /\ upend' = IF closing THEN <<>>
                ELSE <<Cmd("close", CloseReasonFrame(Normal, <<>>), "ignore")>>
    /\ ops' = ops + 1
    /\ last_call' = Call("close", IF closing THEN "ok" ELSE "pending")
    /\ UNCHANGED <<cfg, closed, chans, writerVars, readerVars, pingVars, stats,
                   upc, nrecv, sentlog, dec>>

\* a `.send(..).await` of the pending call: close_reason drops its result;
\* send_data and ping return the error of a failed send
UserChanSend ==
    /\ upc = "idle" /\ upend # <<>>
    /\ LET c == Head(upend) IN
          \/ /\ SendFits(c.ch)
             /\ Enqueue(c.ch, c.item)
             /\ upend' = Tail(upend)
             /\ last_call' = [last_call EXCEPT
                                 !.res = IF Tail(upend) = <<>> THEN "ok" ELSE @]
             /\ sentlog' = IF c.ch = "data"
                            THEN Append(sentlog, NextFragment(sentlog[Len(sentlog)]))
                            ELSE sentlog
             /\ unanswered' = IF c.item.op = "Ping"
                              THEN unanswered \cup {c.item.payload} ELSE unanswered
          \/ /\ SendFails(c.ch)
             /\ UNCHANGED <<chans, sentlog, unanswered>>
             /\ upend' = IF c.onerr = "fail" THEN <<>> ELSE Tail(upend)
             /\ last_call' = [last_call EXCEPT
                                 !.res = IF c.onerr = "fail" THEN "err" ELSE "ok"]
    /\ UNCHANGED <<cfg, flags, writerVars, readerVars, pingVars, last_nonce,
                   history, idx, upc, ops, nrecv, dec>>

\* recv(): take the next event off the event channel
UserRecv ==
    /\ upc = "idle" /\ upend = <<>>
    /\ nrecv < Len(evlog)
    /\ nrecv' = nrecv + 1
    /\ UNCHANGED <<cfg, flags, chans, writerVars, readerVars, pingVars, stats,
                   upc, upend, ops, last_call, sentlog, dec>>

\* impl Drop for WebSocket: set closing; the handle's senders and the event
\* receiver go with it
UserDrop ==
    /\ upc = "idle" /\ upend = <<>>
    /\ upc' = "dropped"
    /\ closing' = TRUE
    /\ UNCHANGED <<cfg, closed, chans, writerVars, readerVars, pingVars, stats,
                   upend, ops, last_call, nrecv, sentlog, dec>>

(***************************************************************************)
(* Helpers of the reader: UTF-8 validation, close payloads, inflation.     *)
(***************************************************************************)
IsCont(x) == x \in 128..191

\* str::from_utf8(..).is_ok()
RECURSIVE Utf8Valid(_)
Utf8Valid(b) ==
    IF b = <<>> THEN TRUE
    ELSE LET n == Len(b)
             rest(k) == SubSeq(b, k + 1, n)
         IN CASE b[1] < 128 -> Utf8Valid(rest(1))
              [] b[1] \in 194..223 ->
                    n >= 2 /\ IsCont(b[2]) /\ Utf8Valid(rest(2))
              [] b[1] = 224 ->
                    n >= 3 /\ b[2] \in 160..191 /\ IsCont(b[3]) /\ Utf8Valid(rest(3))
              [] b[1] \in (225..236) \cup {238, 239} ->
                    n >= 3 /\ IsCont(b[2]) /\ IsCont(b[3]) /\ Utf8Valid(rest(3))
              [] b[1] = 237 ->
                    n >= 3 /\ b[2] \in 128..159 /\ IsCont(b[3]) /\ Utf8Valid(rest(3))
              [] b[1] = 240 ->
                    n >= 4 /\ b[2] \in 144..191 /\ IsCont(b[3]) /\ IsCont(b[4])
                           /\ Utf8Valid(rest(4))
              [] b[1] \in 241..243 ->
                    n >= 4 /\ IsCont(b[2]) /\ IsCont(b[3]) /\ IsCont(b[4])
                           /\ Utf8Valid(rest(4))
              [] b[1] = 244 ->
                    n >= 4 /\ b[2] \in 128..143 /\ IsCont(b[3]) /\ IsCont(b[4])
                           /\ Utf8Valid(rest(4))
              [] OTHER -> FALSE

\* is_valid_close_payload (decode.rs)
IsValidClosePayload(bytes) ==
    CASE Len(bytes) = 0 -> TRUE
      [] Len(bytes) = 1 -> FALSE
      [] OTHER ->
            LET code == bytes[1] * 256 + bytes[2]
            IN  /\ code \in (1000..1011) \cup (3000..4999)
                /\ Utf8Valid(SubSeq(bytes, 3, Len(bytes)))

\* The inflater (flate2's DeflateDecoder) on the bits of the stream (each
\* byte from its least significant bit).  A block starts with BFINAL and
\* the two bits of BTYPE.  A stored block (BTYPE 0) skips to the next byte
\* boundary and has LEN and NLEN as two little-endian bytes each, then LEN
\* raw bytes; LEN and NLEN must be complements.  A block of fixed Huffman
\* codes (BTYPE 1) is a run of symbols, each code from its most significant
\* bit: 7 bits for 256..279, 8 bits for the literals 0..143 and for
\* 280..287, 9 bits for the literals 144..255; 256 ends the block, 257..264
\* copy 3..10 bytes from the distance the next 5 bits give (codes 0..3:
\* 1..4 bytes back).  BTYPE 3 is reserved: a stream error.  A stream that
\* stops short is no error (the decoder waits for more input).  Dynamic
\* codes (BTYPE 2) and length or distance codes with extra bits are outside
\* the model's inputs.
BitsOf(d) ==
    [i \in 1..(8 * Len(d)) |-> (d[((i - 1) \div 8) + 1] \div (2 ^ ((i - 1) % 8))) % 2]

RECURSIVE MsbNum(_, _, _)
MsbNum(b, p, n) == IF n = 0 THEN 0 ELSE 2 * MsbNum(b, p, n - 1) + b[p + n - 1]

RECURSIVE LsbNum(_, _, _)
LsbNum(b, p, n) == IF n = 0 THEN 0 ELSE b[p] + 2 * LsbNum(b, p + 1, n - 1)

RECURSIVE InflateAt(_, _, _, _)
RECURSIVE FixedBlock(_, _, _, _, _)
FixedBlock(d, b, p, out, bfinal) ==
    IF p + 6 > Len(b) THEN [ok |-> TRUE, out |-> out]
    ELSE LET c7 == MsbNum(b, p, 7) IN
         IF c7 = 0
         THEN IF bfinal THEN [ok |-> TRUE, out |-> out]
              ELSE InflateAt(d, b, p + 7, out)
         ELSE IF c7 <= 23
         THEN IF p + 11 > Len(b) THEN [ok |-> TRUE, out |-> out]
              ELSE LET len == c7 + 2
                       dist == MsbNum(b, p + 7, 5) + 1
                   IN  IF c7 > 8 \/ dist > 4 \/ dist > Len(out)
                       THEN [ok |-> FALSE, out |-> out]
                       ELSE FixedBlock(d, b, p + 12,
                                out \o [i \in 1..len |->
                                           out[Len(out) - dist + 1 + ((i - 1) % dist)]],
                                bfinal)
         ELSE IF p + 7 > Len(b) THEN [ok |-> TRUE, out |-> out]
         ELSE LET c8 == MsbNum(b, p, 8) IN
              IF c8 \in 48..191
              THEN FixedBlock(d, b, p + 8, Append(out, c8 - 48), bfinal)
              ELSE IF c8 < 200 THEN [ok |-> FALSE, out |-> out]
              ELSE IF p + 8 > Len(b) THEN [ok |-> TRUE, out |-> out]
              ELSE FixedBlock(d, b, p + 9,
                              Append(out, MsbNum(b, p, 9) - 256), bfinal)

InflateAt(d, b, p, out) ==
    IF p + 2 > Len(b) THEN [ok |-> TRUE, out |-> out]
    ELSE LET bfinal == b[p] = 1
             btype == b[p + 1] + 2 * b[p + 2]
         IN  IF btype = 1 THEN FixedBlock(d, b, p + 3, out, bfinal)
             ELSE IF btype # 0 THEN [ok |-> FALSE, out |-> out]
             ELSE LET q == 8 * ((p + 9) \div 8) + 1
                      at == (q - 1) \div 8 + 4
                  IN  IF q + 31 > Len(b) THEN [ok |-> TRUE, out |-> out]
                      ELSE LET len == LsbNum(b, q, 16)
                               nlen == LsbNum(b, q + 16, 16)
                               have == Min(len, Len(d) - at)
                           IN  IF len + nlen # 65535 THEN [ok |-> FALSE, out |-> out]
                               ELSE IF bfinal \/ have < len
                                    THEN [ok |-> TRUE,
                                          out |-> out \o SubSeq(d, at + 1, at + have)]
                                    ELSE InflateAt(d, b, q + 32 + 8 * len,
                                                   out \o SubSeq(d, at + 1, at + len))

InflateBlocks(d, out) == InflateAt(d, BitsOf(d), 1, out)

\* an into_message that makes every message a Binary one
IntoMessageBinary(pm) == [res |-> "Ok", ev |-> Event("Binary", pm.data)]

\* PartialMessage::into_message: with an inflater every message is inflated
\* (without context takeover after appending 00 00 FF FF), then a text
\* message is checked to be UTF-8
IntoMessage(pm) ==
    LET inf == IF cfg.compressed
               THEN InflateBlocks(IF cfg.use_context THEN pm.data
                                  ELSE pm.data \o <<0, 0, 255, 255>>, <<>>)
               ELSE [ok |-> TRUE, out |-> pm.data]
    IN  IF ~inf.ok THEN [res |-> "Deflate", ev |-> ClosedEv]
        ELSE IF pm.text
             THEN IF Utf8Valid(inf.out)
                  THEN [res |-> "Ok", ev |-> Event("Text", inf.out)]
                  ELSE [res |-> "Utf8", ev |-> ClosedEv]
             ELSE [res |-> "Ok", ev |-> Event("Binary", inf.out)]

(***************************************************************************)
(* What the peer puts on the transport.  An item is a whole well-formed    *)
(* frame, or bytes on which the decoder fails and stays at a frame         *)
(* boundary: "proto" is a stray first header byte with RSV2 set (Header1   *)
(* consumes it, returns ProtoError and stays in Header1), "size" is a      *)
(* whole data frame longer than MAX_FRAME_PAYLOAD (parse_payload clears    *)
(* the buffer, returns SizeErr and goes back to Header1).                  *)
(***************************************************************************)
Item(k, f) == [k |-> k, f |-> f]
FrameItem(f) == Item("frame", f)
NoFrame == Frame("Cont", FALSE, FALSE, <<>>)
BadProto == Item("proto", NoFrame)
BadSize == Item("size", NoFrame)

\* the frames next_frame returns Complete for (parse_header1, parse_header2,
\* parse_payload pass)
WellFormed(f, compressed) ==
    /\ f.rsv1 => compressed
    /\ IsControl(f.op) => f.fin /\ ~f.rsv1 /\ Len(f.payload) <= 125
    /\ f.op = "Close" => IsValidClosePayload(f.payload)

TextH == FrameItem(Frame("Text", TRUE, FALSE, <<104>>))
TextBadUtf8 == FrameItem(Frame("Text", TRUE, FALSE, <<255>>))
\* two fragments of MAX_FRAME_PAYLOAD bytes each: together they exceed
\* MAX_MESSAGE_SIZE
TextStart ==
    FrameItem(Frame("Text", FALSE, FALSE, [i \in 1..MAX_FRAME_PAYLOAD |-> 104]))
ContEnd ==
    FrameItem(Frame("Cont", TRUE, FALSE, [i \in 1..MAX_FRAME_PAYLOAD |-> 105]))
TextBadDeflate == FrameItem(Frame("Text", TRUE, TRUE, <<7>>))
PingItem == FrameItem(PingFrame(<<1>>))
PongZero == FrameItem(PongFrame(ZeroNonce))
\* 88 05 03 EA 62 61 64: Close, code 1002, reason "bad"
Close1002Bad == FrameItem(Frame("Close", TRUE, FALSE, <<3, 234, 98, 97, 100>>))
CloseNoneGiven == FrameItem(Frame("Close", TRUE, FALSE, <<3, 237>>))
CloseEmpty == FrameItem(Frame("Close", TRUE, FALSE, <<>>))

\* Text "Hel" fin=0, Continuation "lo" fin=1
TextHel == FrameItem(Frame("Text", FALSE, FALSE, <<72, 101, 108>>))
ContLo == FrameItem(Frame("Cont", TRUE, FALSE, <<108, 111>>))
BinStart == FrameItem(Frame("Bin", FALSE, FALSE, <<1>>))
\* a compressed text message in two fragments: the deflate stream of the
\* empty message (one empty stored block, 00 00 00 FF FF)
DeflStart == FrameItem(Frame("Text", FALSE, TRUE, <<0, 0, 0>>))
DeflEnd == FrameItem(Frame("Cont", TRUE, FALSE, <<255, 255>>))

(***************************************************************************)
(* Reader task (WebSocket::reader_loop, frame_handler.rs).                 *)
(***************************************************************************)
NoPartial == [some |-> FALSE, text |-> FALSE, data |-> <<>>]

\* the keepalive task holds the last_seen mutex from its elapsed() check to
\* the end of its iteration, across its channel sends
PingHoldsLock == ppend # <<>>

\* reader.read_buf returning Ok(n), n > 0: the bytes of one or more items
\* of the peer; last_seen is updated under its mutex and the bytes go to
\* the decoder
ReaderRead(items) ==
    /\ rpc = "read" /\ rpend = <<>>
    /\ ~PingHoldsLock
    /\ \E n \in 1..(MaxIn - nin) :
          \E chunk \in [1..n -> items] :
             /\ \A i \in 1..n : WellFormed(chunk[i].f, cfg.compressed)
             /\ fdbuf' = fdbuf \o chunk
             /\ nin' = nin + n
    /\ rpc' = "decode"
    /\ UNCHANGED <<cfg, flags, chans, writerVars, rpend, partial_msg, term,
                   pingVars, stats, userVars, dec>>

\* a reader that leaves its loop without sending Event::Closed
ReaderEndSilent ==
    /\ rpc = "read" /\ rpend = <<>>
    /\ closing' = TRUE
    /\ closed' = TRUE
    /\ rpc' = "done"
    /\ fdbuf' = <<>>
    /\ partial_msg' = NoPartial
    /\ UNCHANGED <<cfg, chans, writerVars, rpend, term, nin, pingVars, stats,
                   userVars, dec>>

\* reader.read_buf returning Ok(0) or Err: the loop is left, closing and
\* closed are stored, and Event::Closed is sent; the task's locals go
ReaderEnd ==
    /\ rpc = "read" /\ rpend = <<>>
    /\ closing' = TRUE
    /\ closed' = TRUE
    /\ rpend' = <<Cmd("event", ClosedEv, "ignore")>>
    /\ rpc' = "done"
    /\ fdbuf' = <<>>
    /\ partial_msg' = NoPartial
    /\ UNCHANGED <<cfg, chans, writerVars, term, nin, pingVars, stats, userVars, dec>>

\* where the inner loop goes after handle_frame returned Some(()): the next
\* frame, or (next_frame on an empty buffer returns None) the next read
AfterSome(buf) == IF buf = <<>> THEN "read" ELSE "decode"

\* a reader answering both decoder errors with ProtoError
DecodeErrorOneCode ==
    /\ Head(fdbuf).k \in {"proto", "size"}
    /\ closing' = TRUE
    /\ term' = TRUE
    /\ rpend' = <<Cmd("close", CloseReasonFrame(ProtoError, TxtProto), "ignore")>>
    /\ fdbuf' = IF Head(fdbuf).k = "proto" THEN Tail(fdbuf) ELSE <<>>
    /\ rpc' = "read"
    /\ UNCHANGED <<partial_msg, stats>>

\* Err(FrameParseError::ProtoError) / Err(FrameParseError::SizeErr)
DecodeError ==
    /\ Head(fdbuf).k \in {"proto", "size"}
    /\ closing' = TRUE
    /\ term' = TRUE
    /\ IF Head(fdbuf).k = "proto"
          THEN /\ rpend' = <<Cmd("close", CloseReasonFrame(ProtoError, TxtProto), "ignore")>>
               /\ fdbuf' = Tail(fdbuf)
          ELSE /\ rpend' = <<Cmd("close", CloseReasonFrame(TooBig, TxtFrameTooBig), "ignore")>>
               /\ fdbuf' = <<>>
    /\ rpc' = "read"
    /\ UNCHANGED <<partial_msg, stats>>

\* a handle_ping that drops the pending message
HandlePingReset(f) ==
    /\ rpend' = <<Cmd("ctrl", PongFrame(f.payload), "ignore")>>
    /\ fdbuf' = Tail(fdbuf)
    /\ rpc' = AfterSome(Tail(fdbuf))
    /\ partial_msg' = NoPartial
    /\ UNCHANGED <<closing, stats, term>>

\* a handle_ping answering with an empty Pong
HandlePingEmpty(f) ==
    /\ rpend' = <<Cmd("ctrl", PongFrame(<<>>), "ignore")>>
    /\ fdbuf' = Tail(fdbuf)
    /\ rpc' = AfterSome(Tail(fdbuf))
    /\ UNCHANGED <<closing, partial_msg, stats, term>>

\* handle_ping
HandlePing(f) ==
    /\ rpend' = <<Cmd("ctrl", PongFrame(f.payload), "ignore")>>
    /\ fdbuf' = Tail(fdbuf)
    /\ rpc' = AfterSome(Tail(fdbuf))
    /\ UNCHANGED <<closing, partial_msg, stats, term>>

\* latencies on_pong measures (elapsed milliseconds that fit a u16)
Latencies == {5}

\* slots of PingStats.history
N == 5

\* PingStats::add
StatsAdd(rtt) ==
    /\ history' = [history EXCEPT ![idx + 1] = rtt]
    /\ idx' = (idx + 1) % N

\* handle_pong closing on a late Pong but recording its latency all the same
HandlePongLateAdd(f) ==
    /\ fdbuf' = Tail(fdbuf)
    /\ rpc' = AfterSome(Tail(fdbuf))
    /\ IF Len(f.payload) = 8 /\ f.payload = last_nonce
          THEN \E late \in BOOLEAN :
                  IF late
                     THEN /\ rpend' = <<Cmd("close",
                                CloseReasonFrame(Policy, TxtPingTimeout), "ignore")>>
                          /\ \E lat \in Latencies : StatsAdd(lat)
                          /\ UNCHANGED unanswered
                     ELSE \E lat \in Latencies :
                             /\ StatsAdd(lat)
                             /\ unanswered' = unanswered \ {f.payload}
                             /\ rpend' = <<Cmd("event", Event("Pong", <<lat>>), "ignore")>>
          ELSE /\ rpend' = <<>>
               /\ UNCHANGED <<history, idx, unanswered>>
    /\ UNCHANGED <<closing, partial_msg, last_nonce, term>>

\* handle_pong with PingStats::on_pong: an 8-byte payload equal to last_nonce
\* gives Ok(latency), or Late when the elapsed time does not fit a u16
HandlePong(f) ==
    /\ fdbuf' = Tail(fdbuf)
    /\ rpc' = AfterSome(Tail(fdbuf))
    /\ IF Len(f.payload) = 8 /\ f.payload = last_nonce
          THEN \E late \in BOOLEAN :
                  IF late
                     THEN /\ rpend' = <<Cmd("close",
                                CloseReasonFrame(Policy, TxtPingTimeout), "ignore")>>
                          /\ UNCHANGED <<history, idx, unanswered>>
                     ELSE \E lat \in Latencies :
                             /\ StatsAdd(lat)
                             /\ unanswered' = unanswered \ {f.payload}
                             /\ rpend' = <<Cmd("event", Event("Pong", <<lat>>), "ignore")>>
          ELSE /\ rpend' = <<>>
               /\ UNCHANGED <<history, idx, unanswered>>
    /\ UNCHANGED <<closing, partial_msg, last_nonce, term>>

\* a handle_close echoing the peer's code back
HandleCloseEchoCode(f) ==
    /\ term' = TRUE
    /\ IF f.payload = <<>>
          THEN /\ rpc' = "panicked"
               /\ rpend' = <<>>
               /\ fdbuf' = <<>>
               /\ UNCHANGED closing
          ELSE /\ rpc' = "read"
               /\ fdbuf' = Tail(fdbuf)
               /\ closing' = TRUE
               /\ rpend' = IF closing THEN <<>>
                           ELSE <<Cmd("close",
                                  CloseReasonFrame(CloseReasonFrom(f.payload[1], f.payload[2]),
                                                   TxtPeerClosed),
                                  "error_event")>>
    /\ UNCHANGED <<partial_msg, stats>>

\* handle_close.  The reason text is sliced as payload[2..] before anything
\* else is done with it: on an empty payload that slice is out of range and
\* the task panics.  handle_frame returns None after handle_close.
HandleClose(f) ==
    /\ term' = TRUE
    /\ IF f.payload = <<>>
          THEN /\ rpc' = "panicked"
               /\ rpend' = <<>>
               /\ fdbuf' = <<>>
               /\ UNCHANGED closing
          ELSE LET code == CloseReasonFrom(f.payload[1], f.payload[2])
                   reason == IF code \in {Rsv, NoneGiven, Abnormal, Tls}
                             THEN ProtoError ELSE Normal
               IN  /\ rpc' = "read"
                   /\ fdbuf' = Tail(fdbuf)
                   /\ IF ~Utf8Valid(SubSeq(f.payload, 3, Len(f.payload)))
                         THEN /\ rpend' = <<Cmd("close",
                                    CloseReasonFrame(ProtoError, TxtInvalidClose), "ignore")>>
                              /\ UNCHANGED closing
                         ELSE /\ closing' = TRUE
                              /\ rpend' = IF closing THEN <<>>
                                          ELSE <<Cmd("close",
                                                 CloseReasonFrame(reason, TxtPeerClosed),
                                                 "error_event")>>
    /\ UNCHANGED <<partial_msg, stats>>

\* a handle_data that lets a new Text or Binary frame replace the pending
\* message
HandleDataLenient(f) ==
    LET fresh == f.op \in {"Text", "Bin"}
        cont == partial_msg.some /\ f.op = "Cont" /\ ~f.rsv1
        p == IF fresh THEN [some |-> TRUE, text |-> (f.op = "Text"), data |-> <<>>]
             ELSE partial_msg
        full == [p EXCEPT !.data = @ \o f.payload]
        msg == IntoMessage(full)
        Fail(reason, text) ==
            /\ rpend' = <<Cmd("close", CloseReasonFrame(reason, text), "ignore")>>
            /\ term' = TRUE
            /\ rpc' = "read"
    IN  /\ fdbuf' = Tail(fdbuf)
        /\ UNCHANGED <<closing, stats>>
        /\ IF ~(fresh \/ cont)
              THEN /\ Fail(ProtoError, TxtUnexpected)
                   /\ UNCHANGED partial_msg
           ELSE IF Len(p.data) + Len(f.payload) > MAX_MESSAGE_SIZE
              THEN /\ Fail(TooBig, TxtMsgTooBig)
                   /\ partial_msg' = p
           ELSE IF ~f.fin
              THEN /\ rpend' = <<>>
                   /\ rpc' = AfterSome(Tail(fdbuf))
                   /\ partial_msg' = full
                   /\ UNCHANGED term
           ELSE /\ partial_msg' = NoPartial
                /\ CASE msg.res = "Ok" ->
                          /\ rpend' = <<Cmd("event", msg.ev, "ignore")>>
                          /\ rpc' = AfterSome(Tail(fdbuf))
                          /\ UNCHANGED term
                     [] msg.res = "Utf8" -> Fail(DataError, TxtInvalidUtf8)
                     [] msg.res = "Deflate" -> Fail(ProtoError, TxtBadDeflate)

\* handle_data
HandleData(f) ==
    LET fresh == ~partial_msg.some /\ f.op \in {"Text", "Bin"}
        cont == partial_msg.some /\ f.op = "Cont" /\ ~f.rsv1
        p == IF fresh THEN [some |-> TRUE, text |-> (f.op = "Text"), data |-> <<>>]
             ELSE partial_msg
        full == [p EXCEPT !.data = @ \o f.payload]
        msg == IntoMessage(full)
        Fail(reason, text) ==
            /\ rpend' = <<Cmd("close", CloseReasonFrame(reason, text), "ignore")>>
            /\ term' = TRUE
            /\ rpc' = "read"
    IN  /\ fdbuf' = Tail(fdbuf)
        /\ UNCHANGED <<closing, stats>>
        /\ IF ~(fresh \/ cont)
              THEN /\ Fail(ProtoError, TxtUnexpected)
                   /\ UNCHANGED partial_msg
           ELSE IF Len(p.data) + Len(f.payload) > MAX_MESSAGE_SIZE
              THEN /\ Fail(TooBig, TxtMsgTooBig)
                   /\ partial_msg' = p
           ELSE IF ~f.fin
              THEN /\ rpend' = <<>>
                   /\ rpc' = AfterSome(Tail(fdbuf))
                   /\ partial_msg' = full
                   /\ UNCHANGED term
           ELSE /\ partial_msg' = NoPartial
                /\ CASE msg.res = "Ok" ->
                          /\ rpend' = <<Cmd("event", msg.ev, "ignore")>>
                          /\ rpc' = AfterSome(Tail(fdbuf))
                          /\ UNCHANGED term
                     [] msg.res = "Utf8" -> Fail(DataError, TxtInvalidUtf8)
                     [] msg.res = "Deflate" -> Fail(ProtoError, TxtBadDeflate)

\* handle_frame
HandleFrame(f) ==
    CASE f.op \in {"Text", "Bin", "Cont"} -> HandleData(f)
      [] f.op = "Pong" -> HandlePong(f)
      [] f.op = "Ping" -> HandlePing(f)
      [] f.op = "Close" -> HandleClose(f)

\* one turn of the inner loop: fd.next_frame() and the match on its result
ReaderDecode ==
    /\ rpc = "decode" /\ rpend = <<>> /\ fdbuf # <<>>
    /\ IF Head(fdbuf).k = "frame" THEN HandleFrame(Head(fdbuf).f) ELSE DecodeError
    /\ UNCHANGED <<cfg, closed, chans, writerVars, nin, pingVars, userVars, dec>>

\* one `.send(..).await` of the frame handler or of the loop's end; a failed
\* echo of the peer's Close is reported as Event::Error
ReaderChanSend ==
    /\ rpend # <<>>
    /\ LET c == Head(rpend) IN
          \/ /\ SendFits(c.ch)
             /\ Enqueue(c.ch, c.item)
             /\ rpend' = Tail(rpend)
          \/ /\ SendFails(c.ch)
             /\ UNCHANGED chans
             /\ rpend' = IF c.onerr = "error_event"
                         THEN <<Cmd("event", Event("Error", c.item.payload), "ignore")>>
                         ELSE Tail(rpend)
    /\ UNCHANGED <<cfg, flags, writerVars, rpc, fdbuf, partial_msg, term, nin,
                   pingVars, stats, userVars, dec>>

(***************************************************************************)
(* Keepalive task (WebSocket::ping_loop).  Time is abstracted: whether the *)
(* peer has been silent for interval_secs (idles: the answers the          *)
(* connection's age allows), and whether the keepalive ping is             *)
(* 2 * interval_secs old, are free choices at every tick.                  *)
(***************************************************************************)
PingTick(idles) ==
    /\ ppc = "tick" /\ ppend = <<>>
    /\ IF closing
          THEN /\ ppc' = "done"
               /\ UNCHANGED <<ppend, stats>>
          ELSE /\ ppc' = ppc
               /\ \E idle \in idles, expired \in BOOLEAN :
                     IF idle /\ ~ping_sent
                        THEN /\ ~PongHoldsStats
                             /\ last_nonce' = FreshNonce
                             /\ ppend' = <<Cmd("ctrl", PingFrame(FreshNonce), "stop")>>
                             /\ UNCHANGED <<history, idx, unanswered>>
                     ELSE IF ping_sent /\ expired
                        THEN /\ ppend' = <<Cmd("close",
                                    CloseReasonFrame(Policy, TxtPingTimedOut), "ignore")>>
                             /\ UNCHANGED stats
                     ELSE UNCHANGED <<ppend, stats>>
    /\ UNCHANGED <<cfg, flags, chans, writerVars, readerVars, ping_sent, userVars, dec>>

\* one `.send(..).await` of the keepalive iteration: a failed ping send is
\* reported as Event::Error and ends the task
PingChanSend ==
    /\ ppend # <<>>
    /\ LET c == Head(ppend) IN
          \/ /\ SendFits(c.ch)
             /\ Enqueue(c.ch, c.item)
             /\ ppend' = Tail(ppend)
             /\ ping_sent' = (ping_sent \/ c.ch = "ctrl")
             /\ unanswered' = IF c.ch = "ctrl" THEN unanswered \cup {c.item.payload}
                              ELSE unanswered
             /\ ppc' = ppc
          \/ /\ SendFails(c.ch)
             /\ UNCHANGED <<chans, ping_sent, unanswered>>
             /\ IF c.onerr = "stop"
                   THEN /\ ppend' = <<Cmd("event", Event("Error", c.item.payload), "ignore")>>
                        /\ ppc' = "done"
                   ELSE /\ ppend' = Tail(ppend)
                        /\ ppc' = ppc
    /\ UNCHANGED <<cfg, flags, writerVars, readerVars, last_nonce, history, idx,
                   userVars, dec>>

(***************************************************************************)
(* The engine: WebSocket::from_stream, then the tasks.                     *)
(***************************************************************************)
NoCall ==
    [op |-> "none", res |-> "ok", closing |-> FALSE, stopped |-> FALSE,
     term |-> FALSE]

\* the engine specifications do not run the byte-level decoder
NoDec == [state |-> "off"]

InitEngine(compressed, use_context) ==
    /\ cfg = [compressed |-> compressed, use_context |-> use_context]
    /\ closing = FALSE /\ closed = FALSE
    /\ close_q = <<>> /\ ctrl_q = <<>> /\ data_q = <<>>
    /\ evlog = <<>> /\ nrecv = 0
    /\ wpc = "run" /\ wire = <<>> /\ wshut = FALSE /\ wfail = FALSE
    /\ wbypass = FALSE
    /\ rpc = "read" /\ rpend = <<>> /\ fdbuf = <<>>
    /\ partial_msg = NoPartial /\ term = FALSE /\ nin = 0
    /\ ppc = "tick" /\ ppend = <<>> /\ ping_sent = FALSE
    /\ last_nonce = ZeroNonce /\ history = [i \in 1..N |-> -1] /\ idx = 0
    /\ unanswered = {}
    /\ upc = "idle" /\ upend = <<>> /\ ops = 0 /\ last_call = NoCall
    /\ sentlog = <<>>

Writer == WriterWrite \/ WriterExit

Reader(items) == ReaderRead(items) \/ ReaderEnd \/ ReaderDecode \/ ReaderChanSend

Keepalive(idles) == PingTick(idles) \/ PingChanSend

Caller(kinds) == UserSend(kinds) \/ UserClose \/ UserChanSend \/ UserRecv \/ UserDrop

\* The close handshake: the peer sends a message and Close frames; the peer
\* may fall silent for interval_secs; the caller sends text and closes.
CoreItems == {TextH, Close1002Bad, CloseEmpty}

Init == InitEngine(FALSE, FALSE) /\ dec = NoDec

Next == Writer \/ Reader(CoreItems) \/ Keepalive(BOOLEAN) \/ Caller({"Text"})

Spec == Init /\ [][Next]_vars

\* The API on a connection younger than interval_secs (the keepalive task
\* never finds the peer idle): the caller sends text and bytes and closes.
NextApi ==
    Writer \/ Reader(CoreItems) \/ PingTick({FALSE}) \/ Caller({"Text", "Bin"})

SpecApi == Init /\ [][NextApi]_vars

\* The reader's error paths on a connection younger than interval_secs, with
\* and without permessage-deflate; the caller only receives.
ErrItems ==
    IF cfg.compressed THEN {TextBadDeflate, BadProto, TextH}
    ELSE {TextBadUtf8, TextStart, ContEnd, TextH, BadProto, BadSize}

InitErr == (\E c \in BOOLEAN : InitEngine(c, FALSE)) /\ dec = NoDec

NextErr == Writer \/ Reader(ErrItems) \/ PingTick({FALSE}) \/ UserRecv \/ UserDrop

SpecErr == InitErr /\ [][NextErr]_vars

\* Reassembly on a connection younger than interval_secs, with and without
\* permessage-deflate: fragmented and unfragmented messages; the caller
\* only receives.
MsgItems ==
    IF cfg.compressed THEN {DeflStart, DeflEnd}
    ELSE {TextHel, BinStart, ContLo, TextH, TextBadUtf8}

NextMsg == Writer \/ Reader(MsgItems) \/ PingTick({FALSE}) \/ UserRecv \/ UserDrop

SpecMsg == InitErr /\ [][NextMsg]_vars

\* Data frames out of place on a connection younger than interval_secs:
\* a Continuation with no message pending, a Text or Binary frame while one
\* is pending and, with permessage-deflate, a Continuation with RSV1 set.
ContRsv1 == FrameItem(Frame("Cont", TRUE, TRUE, <<255, 255>>))
UnxItems ==
    IF cfg.compressed THEN {DeflStart, DeflEnd, ContRsv1}
    ELSE {TextHel, ContLo, BinStart, TextH}

NextUnx == Writer \/ Reader(UnxItems) \/ PingTick({FALSE}) \/ UserRecv \/ UserDrop

SpecUnx == InitErr /\ [][NextUnx]_vars

\* Messages at the size limit on a connection younger than interval_secs.
\* Without permessage-deflate: two fragments that exceed MAX_MESSAGE_SIZE.
\* With it: the deflate stream of ten times "a" as zlib writes it
\* (4A 4C 84 01 00 00: two literals, a copy of 8 bytes from 1 back, end of
\* block, the empty stored block without its 00 00 FF FF), in two
\* fragments; and the stream of the empty message.
DeflA1 == FrameItem(Frame("Text", FALSE, TRUE, <<74, 76, 132>>))
DeflA2 == FrameItem(Frame("Cont", TRUE, FALSE, <<1, 0, 0>>))
InflItems ==
    IF cfg.compressed THEN {DeflA1, DeflA2, DeflStart, DeflEnd}
    ELSE {TextStart, ContEnd, TextH}

NextInfl == Writer \/ Reader(InflItems) \/ PingTick({FALSE}) \/ UserRecv \/ UserDrop

SpecInfl == InitErr /\ [][NextInfl]_vars

\* The caller sends messages of one, two and three fragments (the last
\* fragment of the longest is empty) and closes, while the peer's Pings put
\* Pongs on the control queue.
FragPayloads ==
    {<<104>>, [i \in 1..(MAX_FRAME_PAYLOAD + 1) |-> 105],
     [i \in 1..(2 * MAX_FRAME_PAYLOAD) |-> 106]}

NextFrag ==
    \/ Writer \/ Reader({PingItem}) \/ PingTick({FALSE})
    \/ SendData({"Text", "Bin"}, FragPayloads) \/ UserChanSend \/ UserClose \/ UserDrop

SpecFrag == Init /\ [][NextFrag]_vars

\* Pings and Pongs: the peer sends a Ping, the Pong of any Ping it has been
\* sent (once or again), a Pong carrying eight zero bytes and a Pong that
\* is no nonce; the caller calls ping() and recv(); the keepalive task runs.
PongsOwed ==
    {FrameItem(PongFrame(wire[i].payload)) : i \in {j \in DOMAIN wire : wire[j].op = "Ping"}}
PongShort == FrameItem(PongFrame(<<1>>))
PingItems == {PingItem, PongZero, PongShort} \cup PongsOwed

NextPing ==
    \/ Writer \/ Reader(PingItems) \/ Keepalive(BOOLEAN)
    \/ UserPing \/ UserChanSend \/ UserRecv \/ UserDrop

SpecPing == Init /\ [][NextPing]_vars

\* The keepalive task alone sends Pings (the caller never calls ping()), and
\* the peer answers them, sends other Pongs, or nothing at all.
KeepItems == {PongZero, PongShort} \cup PongsOwed

NextKeep == Writer \/ Reader(KeepItems) \/ Keepalive(BOOLEAN) \/ UserRecv \/ UserDrop

SpecKeep == Init /\ [][NextKeep]_vars

\* Every path that sends a Close frame: the peer sends Close frames with
\* the codes 1002, 1004, 1005, 1006 and 4000, frames the decoder rejects
\* (among them a Close with the code 1015 or with a reason that is no
\* UTF-8: is_valid_close_payload fails), messages the reassembler rejects,
\* and Pongs for the keepalive Ping (in time or late); the keepalive task
\* pings and times out; the caller closes.
CloseCoded(code) == FrameItem(Frame("Close", TRUE, FALSE, <<code \div 256, code % 256>>))
CloseItems ==
    {Close1002Bad, CloseCoded(Rsv), CloseCoded(NoneGiven), CloseCoded(Abnormal),
     CloseCoded(Unknown), TextBadUtf8, TextStart, ContEnd,
     BadProto, BadSize} \cup PongsOwed

NextClose ==
    \/ Writer \/ Reader(CloseItems) \/ Keepalive(BOOLEAN)
    \/ UserClose \/ UserChanSend \/ UserRecv \/ UserDrop

SpecClose == Init /\ [][NextClose]_vars

(***************************************************************************)
(* The frame decoder (frames/decode.rs), byte by byte.  dec is the         *)
(* FrameDecoder: its role and compression flag, state, buf and ctx, with   *)
(* the result of the last next_frame call (out, frame) and the number of   *)
(* bytes pushed so far.                                                    *)
(***************************************************************************)
\* impl TryFrom<u8> for Opcode
OpcodeTryFrom(v) ==
    CASE v = 0 -> "Cont"
      [] v = 1 -> "Text"
      [] v = 2 -> "Bin"
      [] v = 8 -> "Close"
      [] v = 9 -> "Ping"
      [] v = 10 -> "Pong"
      [] OTHER -> "Invalid"

\* a wrapping add where the exclusive or belongs
XorAdd(a, b) == (a + b) % 256

\* a ^ b on bytes
RECURSIVE Xor(_, _)
Xor(a, b) ==
    IF a = 0 /\ b = 0 THEN 0
    ELSE (((a % 2) + (b % 2)) % 2) + 2 * Xor(a \div 2, b \div 2)

\* a mask_lin that starts with the second byte of the key
MaskKeyShifted(payload, mask_key) ==
    [i \in 1..Len(payload) |-> Xor(payload[i], mask_key[(i % 4) + 1])]

\* protocol::mask (mask_lin): payload[i] ^= mask_key[i % 4]
Mask(payload, mask_key) ==
    [i \in 1..Len(payload) |-> Xor(payload[i], mask_key[((i - 1) % 4) + 1])]

\* lengths are kept up to this value and saturate above it: it is above
\* MAX_FRAME_PAYLOAD and above every buffer length
LenCap == MAX_FRAME_PAYLOAD + MaxBytes + 1

\* uN::from_be_bytes, saturating at LenCap
RECURSIVE FromBeBytes(_, _)
FromBeBytes(bytes, acc) ==
    IF bytes = <<>> THEN acc
    ELSE FromBeBytes(Tail(bytes), Min(acc * 256 + Head(bytes), LenCap))

\* FrameDecoder::new
FrameDecoderNew(server, compressed) ==
    [server |-> server, compressed |-> compressed,
     state |-> "Header1", buf |-> <<>>,
     is_fin |-> FALSE, opcode |-> "Cont", payload_len |-> 0,
     mask_key |-> <<0, 0, 0, 0>>, rsv1 |-> FALSE,
     out |-> "none", frame |-> NoFrame, pushed |-> 0]

\* what one turn of next_frame's loop gives: the decoder, and "go" (the loop
\* goes on) or what next_frame returns
Turn(d, ret) == [d |-> d, ret |-> ret]

\* the Header1 arm with parse_header1
ParseHeader1(d) ==
    IF d.buf = <<>> THEN Turn(d, "None")
    ELSE LET b == Head(d.buf)
             d1 == [d EXCEPT !.buf = Tail(d.buf)]
             rsv == (b \div 16) % 4 > 0
             compressed == (b \div 64) % 2 = 1
             opcode == OpcodeTryFrom(b % 16)
         IN  IF rsv \/ (compressed /\ ~d.compressed) THEN Turn(d1, "ProtoError")
             ELSE IF opcode = "Invalid" THEN Turn(d1, "ProtoError")
             ELSE Turn([d1 EXCEPT !.is_fin = (b \div 128 = 1),
                                  !.rsv1 = compressed,
                                  !.opcode = opcode,
                                  !.payload_len = 0,
                                  !.mask_key = <<0, 0, 0, 0>>,
                                  !.state = "Header2"], "go")

\* the state after the length is known
AfterLen(d) == IF d.server THEN "Mask" ELSE "Payload"

\* a parse_header2 that does not validate control frames
ParseHeader2Lax(d) ==
    IF d.buf = <<>> THEN Turn(d, "Incomplete")
    ELSE LET b == Head(d.buf)
             d1 == [d EXCEPT !.buf = Tail(d.buf)]
             masked == b \div 128 = 1
             len == b % 128
             d2 == [d1 EXCEPT !.payload_len = len]
         IN  IF d.server # masked THEN Turn(d1, "ProtoError")
             ELSE Turn([d2 EXCEPT !.state = IF len > 125 THEN "ExtendedLen"
                                            ELSE AfterLen(d)], "go")

\* the Header2 arm with parse_header2
ParseHeader2(d) ==
    IF d.buf = <<>> THEN Turn(d, "Incomplete")
    ELSE LET b == Head(d.buf)
             d1 == [d EXCEPT !.buf = Tail(d.buf)]
             masked == b \div 128 = 1
             len == b % 128
             d2 == [d1 EXCEPT !.payload_len = len]
         IN  IF d.server # masked THEN Turn(d1, "ProtoError")
             ELSE IF IsControl(d.opcode) /\ (~d.is_fin \/ d.rsv1 \/ len > 125)
                  THEN Turn(d2, "ProtoError")
             ELSE Turn([d2 EXCEPT !.state = IF len > 125 THEN "ExtendedLen"
                                            ELSE AfterLen(d)], "go")

\* a parse_extended_len that sends the loop back to the Header2 arm
ParseExtendedLenBack(d) ==
    LET n == IF d.payload_len = 126 THEN 2 ELSE 8 IN
    IF n > Len(d.buf) THEN Turn(d, "Incomplete")
    ELSE Turn([d EXCEPT !.payload_len = FromBeBytes(SubSeq(d.buf, 1, n), 0),
                        !.buf = SubSeq(d.buf, n + 1, Len(d.buf)),
                        !.state = "Header2"], "go")

\* the ExtendedLen arm with parse_extended_len and pop_n; on a 64-bit
\* target every u64 length fits usize
ParseExtendedLen(d) ==
    LET n == IF d.payload_len = 126 THEN 2 ELSE 8 IN
    IF n > Len(d.buf) THEN Turn(d, "Incomplete")
    ELSE Turn([d EXCEPT !.payload_len = FromBeBytes(SubSeq(d.buf, 1, n), 0),
                        !.buf = SubSeq(d.buf, n + 1, Len(d.buf)),
                        !.state = AfterLen(d)], "go")

\* a Mask arm that consumes what there is of an incomplete key
ParseMaskEager(d) ==
    IF 4 > Len(d.buf) THEN Turn([d EXCEPT !.buf = <<>>], "Incomplete")
    ELSE Turn([d EXCEPT !.mask_key = SubSeq(d.buf, 1, 4),
                        !.buf = SubSeq(d.buf, 5, Len(d.buf)),
                        !.state = "Payload"], "go")

\* the Mask arm with pop_n
ParseMask(d) ==
    IF 4 > Len(d.buf) THEN Turn(d, "Incomplete")
    ELSE Turn([d EXCEPT !.mask_key = SubSeq(d.buf, 1, 4),
                        !.buf = SubSeq(d.buf, 5, Len(d.buf)),
                        !.state = "Payload"], "go")

\* a parse_payload that waits for one byte more than the payload
ParsePayloadLate(d) ==
    IF Len(d.buf) <= d.payload_len THEN Turn(d, "Incomplete")
    ELSE IF d.payload_len > MAX_FRAME_PAYLOAD
         THEN Turn([d EXCEPT !.buf = <<>>, !.state = "Header1"], "SizeErr")
    ELSE LET raw == SubSeq(d.buf, 1, d.payload_len)
             payload == IF d.server THEN Mask(raw, d.mask_key) ELSE raw
             d1 == [d EXCEPT !.buf = SubSeq(d.buf, d.payload_len + 1, Len(d.buf))]
         IN  IF d.opcode = "Close" /\ ~IsValidClosePayload(payload)
                THEN Turn(d1, "ProtoError")
                ELSE Turn([d1 EXCEPT !.state = "Header1",
                                     !.frame = Frame(d.opcode, d.is_fin, d.rsv1, payload)],
                          "Complete")

\* the Payload arm with parse_payload
ParsePayload(d) ==
    IF Len(d.buf) < d.payload_len THEN Turn(d, "Incomplete")
    ELSE IF d.payload_len > MAX_FRAME_PAYLOAD
         THEN Turn([d EXCEPT !.buf = <<>>, !.state = "Header1"], "SizeErr")
    ELSE LET raw == SubSeq(d.buf, 1, d.payload_len)
             payload == IF d.server THEN Mask(raw, d.mask_key) ELSE raw
             d1 == [d EXCEPT !.buf = SubSeq(d.buf, d.payload_len + 1, Len(d.buf))]
         IN  IF d.opcode = "Close" /\ ~IsValidClosePayload(payload)
                THEN Turn(d1, "ProtoError")
                ELSE Turn([d1 EXCEPT !.state = "Header1",
                                     !.frame = Frame(d.opcode, d.is_fin, d.rsv1, payload)],
                          "Complete")

\* FrameDecoder::next_frame: the loop over the states, until an arm returns
RECURSIVE NextFrame(_)
NextFrame(d) ==
    LET t == CASE d.state = "Header1" -> ParseHeader1(d)
               [] d.state = "Header2" -> ParseHeader2(d)
               [] d.state = "ExtendedLen" -> ParseExtendedLen(d)
               [] d.state = "Mask" -> ParseMask(d)
               [] d.state = "Payload" -> ParsePayload(d)
    IN  IF t.ret = "go" THEN NextFrame(t.d) ELSE [t.d EXCEPT !.out = t.ret]

\* bytes the peer sends the decoder: 00, 01, 06 (opcodes Cont, Text and the
\* unassigned 6; lengths 0, 1, 6), 7E (RSV bits; the 16-bit length marker),
\* 81 (FIN Text; masked length 1)
DecBytes == {0, 1, 6, 126, 129}

\* FrameDecoder::push_bytes
PushBytes ==
    /\ dec.pushed < MaxBytes
    /\ \E b \in DecBytes :
          dec' = [dec EXCEPT !.buf = Append(@, b), !.pushed = @ + 1]
    /\ UNCHANGED engineVars

\* a call of next_frame
CallNextFrame ==
    /\ dec' = NextFrame(dec)
    /\ UNCHANGED engineVars

InitDec ==
    /\ InitEngine(FALSE, FALSE)
    /\ \E server \in BOOLEAN : dec = FrameDecoderNew(server, FALSE)

NextDec == PushBytes \/ CallNextFrame

SpecDec == InitDec /\ [][NextDec]_vars

(***************************************************************************)
(* Masking (protocol/mask.rs) on its own: a buffer is masked in place, and *)
(* masked again with the same key.                                         *)
(***************************************************************************)
\* mask_avx2: whole blocks of 32 bytes are XORed with the key repeated
\* eight times (the lanes of _mm256_set1_epi32 of the little-endian key),
\* the tail of fewer than 32 bytes goes to mask_lin, which counts from 0
MaskAvx2(payload, mask_key) ==
    LET len == Len(payload)
        i == 32 * (len \div 32)
        mask256 == [j \in 1..32 |-> mask_key[((j - 1) % 4) + 1]]
    IN  [k \in 1..i |-> Xor(payload[k], mask256[((k - 1) % 32) + 1])]
            \o Mask(SubSeq(payload, i + 1, len), mask_key)

\* protocol::mask: mask_avx2 on x86_64 with the simd_masking feature and
\* AVX2, mask_lin otherwise
MaskWith(avx2, payload, mask_key) ==
    IF avx2 THEN MaskAvx2(payload, mask_key) ELSE Mask(payload, mask_key)

\* buffer lengths, buffer contents (by index) and keys
MaskLens == {0, 1, 3, 4, 5, 31, 32, 33}
MaskFills == {[i \in 1..33 |-> 0], [i \in 1..33 |-> 255], [i \in 1..33 |-> (i * 37) % 256]}
MaskAllKeys ==
    {<<0, 0, 0, 0>>, <<55, 250, 33, 61>>, <<255, 255, 255, 255>>, <<1, 2, 3, 4>>}

InitMask ==
    /\ InitEngine(FALSE, FALSE)
    /\ \E avx2 \in BOOLEAN, n \in MaskLens, fill \in MaskFills, key \in MaskAllKeys :
          dec = [state |-> "mask", avx2 |-> avx2, mask_key |-> key,
                 payload |-> SubSeq(fill, 1, n), buf |-> SubSeq(fill, 1, n),
                 applied |-> 0]

\* one call mask(&mut buf, mask_key)
MaskCall ==
    /\ dec.applied < 2
    /\ dec' = [dec EXCEPT !.buf = MaskWith(dec.avx2, @, dec.mask_key),
                          !.applied = @ + 1]
    /\ UNCHANGED engineVars

NextMask == MaskCall

SpecMask == InitMask /\ [][NextMask]_vars

(***************************************************************************)
(* PingStats on its own: RTTs are recorded in the ring of N slots and      *)
(* latency() is called.                                                    *)
(***************************************************************************)
\* RTTs recorded (milliseconds, u16) and the number of RTTs recorded
Rtts == {0, 7, 40000, 65535}
MaxAdds == 6

RECURSIVE SumSeq(_)
SumSeq(q) == IF q = <<>> THEN 0 ELSE Head(q) + SumSeq(Tail(q))

\* PingStats::average: sum and count are u16 (the type of checked_div's
\* result); the sum of the populated slots overflows above 65535, which
\* panics in a build with overflow checks and wraps in one without;
\* checked_div gives None for a count of 0
Opt(kind, v) == [kind |-> kind, v |-> v]

Average(overflow_checks) ==
    LET vals == SelectSeq(history, LAMBDA x : x # -1)
        sum == SumSeq(vals)
        count == Len(vals)
    IN  IF sum > 65535 /\ overflow_checks THEN Opt("panic", 0)
        ELSE IF count = 0 THEN Opt("None", 0)
        ELSE Opt("Some", (sum % 65536) \div count)

InitAvg ==
    /\ InitEngine(FALSE, FALSE)
    /\ dec = [state |-> "avg", rtts |-> <<>>, out |-> Opt("none", 0)]

\* PingStats::add
AddRtt ==
    /\ Len(dec.rtts) < MaxAdds
    /\ \E rtt \in Rtts :
          /\ StatsAdd(rtt)
          /\ dec' = [dec EXCEPT !.rtts = Append(@, rtt), !.out = Opt("none", 0)]
    /\ UNCHANGED <<cfg, flags, chans, writerVars, readerVars, pingVars, last_nonce,
                   unanswered, userVars>>

\* WebSocket::latency
Latency ==
    /\ dec.out.kind = "none"
    /\ \E overflow_checks \in BOOLEAN :
          dec' = [dec EXCEPT !.out = Average(overflow_checks)]
    /\ UNCHANGED engineVars

NextAvg == AddRtt \/ Latency

SpecAvg == InitAvg /\ [][NextAvg]_vars

(***************************************************************************)
(* The server (server.rs): it is bound to an address, accepts clients and  *)
(* upgrades them to connections, whose addresses the caller asks for.      *)
(***************************************************************************)
\* addresses the server listens on, addresses clients connect from, and the
\* number of connections accepted
ServerAddrs == {"10.0.0.1:443", "10.0.0.1:8080"}
ClientAddrs == {"10.0.0.7:50001", "10.0.0.8:50002", "10.0.0.9:50003"}
MaxConns == 2

NoAddr == "none"

\* WebSocket::from_stream(stream, local_addr, peer_addr): the fields of the
\* connection; remote is the address the stream is connected to
FromStream(remote, local_addr, peer_addr) ==
    [remote |-> remote, local_addr |-> local_addr, peer_addr |-> peer_addr,
     got_local |-> NoAddr, got_peer |-> NoAddr]

\* WebSocket::try_upgrade(stream, local_addr, peer_addr), the handshake done
TryUpgrade(remote, local_addr, peer_addr) == FromStream(remote, local_addr, peer_addr)

\* WebSocketServer::bind
InitServer ==
    /\ InitEngine(FALSE, FALSE)
    /\ \E a \in ServerAddrs : dec = [state |-> "server", addr |-> a, conns |-> <<>>]

\* one turn of WebSocketServer::run: `peer` is self.addr, accept() yields the
\* stream and the client's address `addr`, and the spawned task calls
\* try_upgrade(stream, addr, peer); a failed handshake gives no connection
Accept ==
    /\ Len(dec.conns) < MaxConns
    /\ \E addr \in ClientAddrs, upgraded \in BOOLEAN :
          LET peer == dec.addr IN
          dec' = IF upgraded
                 THEN [dec EXCEPT !.conns = Append(@, TryUpgrade(addr, addr, peer))]
                 ELSE dec
    /\ UNCHANGED engineVars

\* WebSocket::peer_addr
GetPeerAddr ==
    /\ \E i \in DOMAIN dec.conns :
          dec' = [dec EXCEPT !.conns[i].got_peer = dec.conns[i].peer_addr]
    /\ UNCHANGED engineVars

\* WebSocket::local_addr
GetLocalAddr ==
    /\ \E i \in DOMAIN dec.conns :
          dec' = [dec EXCEPT !.conns[i].got_local = dec.conns[i].local_addr]
    /\ UNCHANGED engineVars

NextServer == Accept \/ GetPeerAddr \/ GetLocalAddr

SpecServer == InitServer /\ [][NextServer]_vars

(***************************************************************************)
(* The data frame encoder (frames/data.rs), byte by byte, and the round    *)
(* trip: one endpoint encodes a message, the other endpoint's reader       *)
(* reads the bytes in pieces of any size, decodes them with the opposite   *)
(* role's decoder and reassembles the message.                             *)
(***************************************************************************)
\* Opcode as u8
OpcodeByte(op) ==
    CASE op = "Cont" -> 0
      [] op = "Text" -> 1
      [] op = "Bin" -> 2
      [] op = "Close" -> 8
      [] op = "Ping" -> 9
      [] op = "Pong" -> 10

\* uN::to_be_bytes: n as k big-endian bytes
RECURSIVE ToBeBytes(_, _)
ToBeBytes(n, k) ==
    IF k = 0 THEN <<>> ELSE Append(ToBeBytes(n \div 256, k - 1), n % 256)

\* DataFrame::single_frame: the first byte (FIN, RSV1, opcode), the length
\* in 7, 16 or 64 bits, and for a client the MASK bit, the key and the
\* masked chunk
SingleFrame(f, client, mask_key) ==
    LET n == Len(f.payload)
        b1 == OpcodeByte(f.op) + (IF f.fin THEN 128 ELSE 0) + (IF f.rsv1 THEN 64 ELSE 0)
        len == IF n <= 125 THEN <<n>>
               ELSE IF n <= 65535 THEN <<126>> \o ToBeBytes(n, 2)
               ELSE <<127>> \o ToBeBytes(n, 8)
    IN  IF client
        THEN <<b1, len[1] + 128>> \o Tail(len) \o mask_key \o Mask(f.payload, mask_key)
        ELSE <<b1>> \o len \o f.payload

\* The deflater (flate2's DeflateEncoder) after write_all and two flushes,
\* as a stream of stored blocks: the input as one non-final stored block
\* (nothing for an empty input), then the empty stored block of a sync
\* flush (00 00 00 FF FF); the second flush finds nothing to compress and
\* adds a second empty block or nothing (again).  The stream is not
\* finished, and nothing is stripped from it.
Deflate(payload, again) ==
    LET n == Len(payload)
        sync == <<0, 0, 0, 255, 255>>
    IN  (IF n = 0 THEN <<>>
         ELSE <<0, n % 256, n \div 256, 255 - (n % 256), 255 - (n \div 256)>> \o payload)
        \o sync \o (IF again THEN sync ELSE <<>>)

RECURSIVE Flatten(_)
Flatten(ss) == IF ss = <<>> THEN <<>> ELSE Head(ss) \o Flatten(Tail(ss))

\* DataFrame::encode: the bytes of the frames of one message, and the
\* length of the payload that goes on the wire
WirePayload(payload, compressed, again) ==
    IF compressed THEN Deflate(payload, again) ELSE payload

Encode(op, payload, compressed, again, client, mask_key) ==
    LET frames == AllFrames(op, WirePayload(payload, compressed, again), compressed)
    IN  Flatten([i \in DOMAIN frames |-> SingleFrame(frames[i], client, mask_key)])

\* payloads given to DataFrame::encode: every length from nothing to one
\* byte more than two full chunks, of two different fillings
EncPayloads ==
    {[i \in 1..n |-> b + i] : n \in 0..(2 * MAX_FRAME_PAYLOAD + 1), b \in {96, 200}}

\* a DataFrame of either opcode, with or without a deflater
InitEnc ==
    /\ InitEngine(FALSE, FALSE)
    /\ \E op \in {"Text", "Bin"}, p \in EncPayloads, c \in BOOLEAN, again \in BOOLEAN :
          /\ again => c
          /\ dec = [state |-> "enc", op |-> op, payload |-> p, compressed |-> c,
                    again |-> again, frames |-> <<>>, done |-> FALSE]

\* one call frame.encode(&mut deflater, false)
EncodeCall ==
    /\ ~dec.done
    /\ dec' = [dec EXCEPT !.frames = AllFrames(dec.op,
                                 WirePayload(dec.payload, dec.compressed, dec.again),
                                 dec.compressed),
                          !.done = TRUE]
    /\ UNCHANGED engineVars

NextEnc == EncodeCall

SpecEnc == InitEnc /\ [][NextEnc]_vars

\* messages sent: empty, one byte, MAX_FRAME_PAYLOAD bytes, a message with
\* a two-byte character across two fragments, one longer than
\* MAX_MESSAGE_SIZE, and one byte that is no UTF-8
RtPayloads ==
    {<<>>, <<104>>, <<255>>, [i \in 1..MAX_FRAME_PAYLOAD |-> 104],
     [i \in 1..(MAX_FRAME_PAYLOAD - 1) |-> 104] \o <<195, 169>>,
     [i \in 1..(MAX_MESSAGE_SIZE + 1) |-> 104]}

\* masking keys the client draws
MaskKeys == {<<0, 0, 0, 0>>, <<55, 250, 33, 61>>}

\* the receiving decoder with the bytes in flight (net) and the message sent
RtDecoder(server, compressed, bytes, op, payload, wire_len) ==
    LET d == FrameDecoderNew(server, compressed)
    IN  [k \in DOMAIN d \cup {"net", "op", "payload", "wire_len"} |->
            CASE k = "net" -> bytes
              [] k = "op" -> op
              [] k = "payload" -> payload
              [] k = "wire_len" -> wire_len
              [] OTHER -> d[k]]

InitRT ==
    \E compressed \in BOOLEAN, use_context \in BOOLEAN, server \in BOOLEAN,
       op \in {"Text", "Bin"}, p \in RtPayloads, again \in BOOLEAN,
       mask_key \in MaskKeys :
        /\ InitEngine(compressed, use_context)
        /\ dec = RtDecoder(server, compressed,
                           Encode(op, p, compressed, again, server, mask_key),
                           op, p, Len(WirePayload(p, compressed, again)))

\* reader.read_buf and push_bytes: the reader reads once its inner loop has
\* run dry, and gets any number of the bytes in flight
RtPush ==
    /\ rpc = "read" /\ rpend = <<>> /\ fdbuf = <<>>
    /\ dec.out \in {"none", "Incomplete", "None", "ProtoError", "SizeErr"} \/ term
    /\ \E n \in 1..Len(dec.net) :
          dec' = [dec EXCEPT !.buf = @ \o SubSeq(dec.net, 1, n),
                             !.net = SubSeq(@, n + 1, Len(@)),
                             !.pushed = @ + n,
                             !.out = "pushed"]
    /\ UNCHANGED engineVars

\* fd.next_frame() in the inner loop: a Complete frame or an error goes to
\* the match arms of the loop.  After a break out of the inner loop (an
\* error, a Close frame) the decoder is called again after the next read.
RtNextFrame ==
    /\ rpc = "read" /\ rpend = <<>> /\ fdbuf = <<>>
    /\ dec.out = "pushed" \/ (dec.out = "Complete" /\ ~term)
    /\ dec' = NextFrame(dec)
    /\ fdbuf' = CASE dec'.out = "Complete" -> <<FrameItem(dec'.frame)>>
                  [] dec'.out = "ProtoError" -> <<BadProto>>
                  [] dec'.out = "SizeErr" -> <<BadSize>>
                  [] OTHER -> <<>>
    /\ rpc' = IF fdbuf' = <<>> THEN "read" ELSE "decode"
    /\ UNCHANGED <<cfg, flags, chans, writerVars, rpend, partial_msg, term, nin,
                   pingVars, stats, userVars>>

NextRT == RtPush \/ RtNextFrame \/ ReaderDecode \/ ReaderChanSend

SpecRT == InitRT /\ [][NextRT]_vars

\* The server reads the bytes 81 85 37 FA 21 3D 7F 9F 4D 51 58, in pieces of
\* any size: a client's Text frame masked with 37 FA 21 3D.
\* "Hello" is 48 65 6C 6C 6F, "hello" is 68 65 6C 6C 6F.
Hello == <<72, 101, 108, 108, 111>>
HelloLower == <<104, 101, 108, 108, 111>>
HelloBytes == <<129, 133, 55, 250, 33, 61, 127, 159, 77, 81, 88>>

InitHello ==
    /\ \E use_context \in BOOLEAN : InitEngine(FALSE, use_context)
    /\ dec = RtDecoder(TRUE, FALSE, HelloBytes, "Text", Hello, Len(Hello))

NextHello == NextRT \/ UserRecv

SpecHello == InitHello /\ [][NextHello]_vars

\* The peer's only frame is a Close with a code that may not appear on the
\* wire (or with 1000): 88 02 and the code, masked if the receiver is a
\* server, read in pieces of any size.  The caller may call close() before,
\* between or after; the writer writes.
PeerCodes == {Rsv, NoneGiven, Abnormal, Tls, Normal}

InitCode ==
    \E server \in BOOLEAN, code \in PeerCodes, mask_key \in MaskKeys :
        /\ InitEngine(FALSE, FALSE)
        /\ dec = RtDecoder(server, FALSE,
                           SingleFrame(Frame("Close", TRUE, FALSE, ToBeBytes(code, 2)),
                                       server, mask_key),
                           "Close", ToBeBytes(code, 2), 2)

NextCode == NextRT \/ UserClose \/ UserChanSend \/ WriterWrite

SpecCode == InitCode /\ [][NextCode]_vars

\* The peer sends "Hello" as Text "Hel" and Continuation "lo", with up to
\* two control frames (a Ping, an unsolicited Pong) between the two; the
\* bytes are read in pieces of any size, the writer writes the Pongs and
\* the caller receives.
InterFrames == {PingFrame(<<1>>), PongFrame(<<>>)}
InterSeqs == {<<>>} \cup {<<c>> : c \in InterFrames} \cup (InterFrames \X InterFrames)

InitInter ==
    \E server \in BOOLEAN, ctl \in InterSeqs :
        LET frames == <<TextHel.f>> \o ctl \o <<ContLo.f>>
            key == <<55, 250, 33, 61>>
        IN  /\ InitEngine(FALSE, FALSE)
            /\ dec = RtDecoder(server, FALSE,
                               Flatten([i \in DOMAIN frames |->
                                           SingleFrame(frames[i], server, key)]),
                               "Text", Hello, Len(Hello))

NextInter == NextRT \/ WriterWrite \/ UserRecv

SpecInter == InitInter /\ [][NextInter]_vars

\* The peer sends a message in fragments of MAX_FRAME_PAYLOAD bytes: two of
\* them exceed MAX_MESSAGE_SIZE.  After the second fragment it sends
\* nothing, or goes on with a last fragment of two bytes; a message of two
\* fragments that fits is sent for comparison.
ContMid == Frame("Cont", FALSE, FALSE, [i \in 1..MAX_FRAME_PAYLOAD |-> 105])
BigSeqs ==
    {<<TextStart.f, ContEnd.f>>, <<TextStart.f, ContMid, ContLo.f>>,
     <<TextHel.f, ContLo.f>>}

InitBig ==
    \E server \in BOOLEAN, frames \in BigSeqs :
        /\ InitEngine(FALSE, FALSE)
        /\ dec = RtDecoder(server, FALSE,
                           Flatten([i \in DOMAIN frames |->
                                       SingleFrame(frames[i], server, <<55, 250, 33, 61>>)]),
                           "Text", Flatten([i \in DOMAIN frames |-> frames[i].payload]),
                           Len(Flatten([i \in DOMAIN frames |-> frames[i].payload])))

NextBig == NextRT \/ WriterWrite \/ UserRecv

SpecBig == InitBig /\ [][NextBig]_vars

(***************************************************************************)
(* The decoder on streams of frames as the peer may put them on the wire,  *)
(* well-formed or not.  A wire frame is what its header bits and bytes     *)
(* say: FIN, the three RSV bits (4 is RSV1), the opcode nibble, the MASK   *)
(* bit and key, how the length is written (ext 0: in 7 bits, 2 or 8: the   *)
(* marker 126 or 127 and that many bytes) and the payload before masking.  *)
(* The caller of the decoder pushes the bytes in pieces of any size and    *)
(* calls next_frame after each push until it returns Incomplete or None;   *)
(* it stops at the first error.  sent and got are history: the frames on   *)
(* the wire and the frames next_frame has returned.                        *)
(***************************************************************************)
WireFrame(fin, rsv, op, masked, ext, payload) ==
    [fin |-> fin, rsv |-> rsv, op |-> op, masked |-> masked, ext |-> ext,
     payload |-> payload]

WireKey == <<55, 250, 33, 61>>

\* the bytes of a wire frame
RawFrame(w) ==
    LET n == Len(w.payload)
        b1 == (IF w.fin THEN 128 ELSE 0) + 16 * w.rsv + w.op
        b2 == (IF w.masked THEN 128 ELSE 0)
              + (IF w.ext = 0 THEN n ELSE IF w.ext = 2 THEN 126 ELSE 127)
    IN  <<b1, b2>> \o ToBeBytes(n, w.ext)
        \o (IF w.masked THEN WireKey \o Mask(w.payload, WireKey) ELSE w.payload)

\* the frames a peer of the given role sends: well-formed data and control
\* frames (one with RSV1, one with its length in 16 bits), and frames with
\* RSV2, an unassigned opcode, the wrong MASK bit, a payload longer than
\* MAX_FRAME_PAYLOAD, control frames without FIN, with RSV1 or with a
\* 16-bit length, and Close payloads of one byte, with the codes 999 and
\* 1015 and with a reason that is no UTF-8
WireGood(m) ==
    {WireFrame(TRUE, 0, 1, m, 0, <<104>>), WireFrame(FALSE, 0, 1, m, 0, <<72, 101, 108>>),
     WireFrame(TRUE, 0, 0, m, 0, <<108, 111>>), WireFrame(TRUE, 0, 9, m, 0, <<1>>),
     WireFrame(TRUE, 0, 8, m, 0, <<3, 232>>)}
WireFrames(m) ==
    WireGood(m) \cup
    {WireFrame(TRUE, 0, 2, m, 0, <<>>), WireFrame(TRUE, 0, 10, m, 0, <<>>),
     WireFrame(TRUE, 0, 8, m, 0, <<>>), WireFrame(TRUE, 4, 1, m, 0, <<0>>),
     WireFrame(TRUE, 0, 2, m, 2, <<1, 2, 3>>), WireFrame(TRUE, 0, 2, m, 8, <<1>>),
     WireFrame(TRUE, 2, 1, m, 0, <<104>>), WireFrame(TRUE, 0, 3, m, 0, <<104>>),
     WireFrame(TRUE, 0, 1, ~m, 0, <<104>>),
     WireFrame(TRUE, 0, 2, m, 0, [i \in 1..(MAX_FRAME_PAYLOAD + 1) |-> 7]),
     WireFrame(FALSE, 0, 9, m, 0, <<1>>), WireFrame(TRUE, 4, 9, m, 0, <<1>>),
     WireFrame(TRUE, 0, 10, m, 2, <<1>>), WireFrame(TRUE, 0, 8, m, 0, <<3>>),
     WireFrame(TRUE, 0, 8, m, 0, <<3, 231>>), WireFrame(TRUE, 0, 8, m, 0, <<3, 247>>),
     WireFrame(TRUE, 0, 8, m, 0, <<3, 232, 255>>)}

WireStreams(m) ==
    {<<w>> : w \in WireFrames(m)} \cup (WireGood(m) \X WireFrames(m))

\* the bytes of the frames of a stream up to the k-th
RECURSIVE RawStream(_, _)
RawStream(ws, k) == IF k = 0 THEN <<>> ELSE RawStream(ws, k - 1) \o RawFrame(ws[k])

WireDecoder(server, compressed, ws) ==
    LET d == FrameDecoderNew(server, compressed)
    IN  [k \in DOMAIN d \cup {"net", "sent", "got"} |->
            CASE k = "net" -> RawStream(ws, Len(ws))
              [] k = "sent" -> ws
              [] k = "got" -> <<>>
              [] OTHER -> d[k]]

InitWire ==
    /\ InitEngine(FALSE, FALSE)
    /\ \E server \in BOOLEAN, compressed \in BOOLEAN :
          \E ws \in WireStreams(server) : dec = WireDecoder(server, compressed, ws)

\* push_bytes with some of the bytes in flight
WirePush ==
    /\ dec.out \in {"none", "Incomplete", "None"}
    /\ \E n \in 1..Len(dec.net) :
          dec' = [dec EXCEPT !.buf = @ \o SubSeq(dec.net, 1, n),
                             !.net = SubSeq(@, n + 1, Len(@)),
                             !.pushed = @ + n,
                             !.out = "pushed"]
    /\ UNCHANGED engineVars

\* next_frame after a push or after a Complete frame
WireNextFrame ==
    /\ dec.out \in {"pushed", "Complete"}
    /\ LET d == NextFrame(dec) IN
          dec' = [d EXCEPT !.got = IF d.out = "Complete" THEN Append(@, d.frame) ELSE @]
    /\ UNCHANGED engineVars

NextWire == WirePush \/ WireNextFrame

SpecWire == InitWire /\ [][NextWire]_vars

(***************************************************************************)
(* Properties of the engine.                                               *)
(***************************************************************************)
NumClosed == Cardinality({i \in DOMAIN evlog : evlog[i].ev = "Closed"})

Written(f) == \E i \in DOMAIN wire : wire[i] = f

\* the reader has left its loop and its send of Event::Closed has returned
ReaderFinished == rpc = "done" /\ rpend = <<>>

\* C1, with the handle alive: at most one Closed event is ever placed on
\* the event channel, and once the reader has observed EOF or a read error
\* and its send has returned, exactly one has been placed, provided the
\* handle (which owns the event receiver) has not been dropped.
C1_ClosedOnce ==
    /\ NumClosed <= 1
    /\ (ReaderFinished /\ upc = "idle") => NumClosed = 1

\* C1 as stated: exactly one Closed whenever the reader has observed EOF or
\* a read error.
C1_ClosedOnceAlways ==
    /\ NumClosed <= 1
    /\ ReaderFinished => NumClosed = 1

\* the keepalive task's Close(1008) was written, the reader then saw EOF or
\* an error, and the one Closed event is on the channel
C1_Witness ==
    /\ ReaderFinished /\ upc = "idle" /\ NumClosed = 1
    /\ Written(CloseReasonFrame(Policy, TxtPingTimedOut))

\* C2: Closed is the last event: no event follows it on the event channel.
C2_ClosedLast ==
    \A i \in DOMAIN evlog : evlog[i].ev = "Closed" => i = Len(evlog)

\* the Close frame of close()
UserCloseFrame == CloseReasonFrame(Normal, <<>>)

\* a step that is a call of close()
IsCloseCall == ops' # ops /\ last_call'.op = "close"

\* a step in which the send of close() returns
IsCloseSend == upend # <<>> /\ upend' = <<>>

\* C3, with the writer running: a close() call that finds closing unset sets
\* it and goes on to send one Close(1000), which is enqueued on the close
\* queue if the writer task is still running and dropped if it has stopped;
\* a call that finds closing set (by an earlier call, by the reader or by
\* anything else) sends nothing and changes no state.
C3_CloseIdempotent ==
    [][ /\ IsCloseCall =>
            /\ closing'
            /\ UNCHANGED <<closed, chans, writerVars, readerVars, pingVars, stats,
                           upc, nrecv>>
            /\ upend' = IF closing THEN <<>>
                        ELSE <<Cmd("close", UserCloseFrame, "ignore")>>
        /\ IsCloseSend =>
            /\ UNCHANGED <<flags, ctrl_q, data_q, evlog>>
            /\ close_q' = IF wpc = "done" THEN close_q
                          ELSE Append(close_q, UserCloseFrame)
      ]_vars

\* C3 as stated: the call that finds closing unset enqueues exactly one
\* Close(1000) on the close queue.
C3_FirstCloseEnqueues ==
    [][ IsCloseSend => close_q' = Append(close_q, UserCloseFrame) ]_vars

\* a second close() found closing set, after the first one's Close was
\* enqueued and written
C3_Witness ==
    /\ last_call.op = "close" /\ last_call.closing /\ ops = 2
    /\ Written(UserCloseFrame)

\* C4: send_text and send_bytes return an error, and enqueue nothing,
\* whenever closing is set or the writer task has stopped.
C4_SendFailsWhenClosing ==
    (last_call.op = "send" /\ (last_call.closing \/ last_call.stopped))
        => last_call.res = "err"

\* C5: whenever the writer writes a frame, it is the head of the close queue
\* if that queue is not empty, else the head of the control queue if that one
\* is not empty, else the head of the data queue; so no data frame is
\* written while a Close or control frame is queued.
C5_WriterPriority ==
    [][ wire' # wire =>
            LET f == wire'[Len(wire')] IN
            /\ Len(wire') = Len(wire) + 1
            /\ close_q # <<>> => f = Head(close_q)
            /\ (close_q = <<>> /\ ctrl_q # <<>>) => f = Head(ctrl_q)
            /\ (close_q = <<>> /\ ctrl_q = <<>>) => (data_q # <<>> /\ f = Head(data_q))
      ]_vars

\* a Close or control frame was written while a data frame was queued
C5_Witness == wbypass

\* the Close frames written to the transport
CloseWire == SelectSeq(wire, LAMBDA f : f.op = "Close")

\* C25: the writer writes at most one Close frame and nothing after it: a
\* turn of its loop that finds the close queue not empty takes the head of
\* that queue, writes it (a failed write is ignored), shuts the write side
\* down and ends the task; after the shutdown nothing is written, whatever
\* the close, control and data queues held.
C25_OneCloseThenNothing ==
    /\ [](/\ Len(CloseWire) <= 1
          /\ CloseWire # <<>> => (wshut /\ wire[Len(wire)].op = "Close")
          /\ wshut => (wpc = "done" /\ SelectFrom = "none"))
    /\ [][ /\ (wpc = "run" /\ close_q # <<>> /\ wpc' # wpc) =>
                /\ wire' \in {wire, Append(wire, Head(close_q))}
                /\ wshut' /\ wpc' = "done"
           /\ (wire' # wire /\ close_q # <<>>) => wire' = Append(wire, Head(close_q))
           /\ (wshut \/ wpc = "done") => (wire' = wire /\ wshut' = wshut /\ wpc' = wpc)
           /\ (wshut' /\ ~wshut) => (wpc = "run" /\ close_q # <<>>)
         ]_vars

\* a Close frame was written ahead of a data frame the caller had enqueued,
\* the write side is shut down and the data frame was never written
C25_Witness ==
    /\ wshut /\ wpc = "done" /\ ~wfail /\ wbypass
    /\ sentlog # <<>>
    /\ \A i \in DOMAIN wire : wire[i].op \notin {"Text", "Bin", "Cont"}
    /\ wire # <<>> /\ wire[Len(wire)].op = "Close"

\* the reader is about to handle the frame at the head of the decoder buffer
AtFrame == rpc = "decode" /\ rpend = <<>> /\ fdbuf # <<>>

\* a step in which the reader handles a Close frame whose code may appear
\* on the wire
IsPeerClose ==
    /\ AtFrame /\ fdbuf' # fdbuf
    /\ Head(fdbuf).k = "frame" /\ Head(fdbuf).f.op = "Close"
    /\ Len(Head(fdbuf).f.payload) >= 2
    /\ CloseCode(Head(fdbuf).f) \notin {Rsv, NoneGiven, Abnormal, Tls}

\* the reader's echo of a peer Close
EchoFrame == CloseReasonFrame(Normal, TxtPeerClosed)

\* a step in which the reader's send of that echo returns
IsEchoSend == rpend # <<>> /\ Head(rpend).item = EchoFrame /\ rpend' # rpend

\* C6, with the writer running: on a well-formed Close frame whose code may
\* appear on the wire the reader sets closing and, if closing was unset,
\* sends one Close(1000), which is enqueued if the writer task is still
\* running (if it has stopped, nothing is enqueued and the reader reports
\* Event::Error); if closing was set it sends no Close frame.
C6_PeerCloseEcho ==
    [][ /\ IsPeerClose =>
            /\ closing'
            /\ UNCHANGED chans
            /\ rpend' = IF closing THEN <<>>
                        ELSE <<Cmd("close", EchoFrame, "error_event")>>
        /\ IsEchoSend =>
            /\ close_q' = IF wpc = "done" THEN close_q ELSE Append(close_q, EchoFrame)
            /\ UNCHANGED <<ctrl_q, data_q, evlog>>
      ]_vars

\* C6 as stated: the Close(1000) is enqueued.
C6_EchoEnqueued ==
    [][ IsEchoSend => close_q' = Append(close_q, EchoFrame) ]_vars

\* the peer's Close was answered: the echo was enqueued and written
C6_Witness == closing /\ term /\ Written(EchoFrame)

\* a step in which the reader handles a Close frame with an empty payload
IsEmptyClose == AtFrame /\ fdbuf' # fdbuf /\ Head(fdbuf) = CloseEmpty

\* C26: a Close frame with an empty payload is handled as a Normal close:
\* the reader does not fail, it sets closing and, if closing was unset,
\* sends a Close(1000); it goes on reading, so that it emits Closed at EOF.
C26_EmptyCloseIsNormal ==
    [][ IsEmptyClose =>
            /\ rpc' \in {"read", "decode"}
            /\ closing'
            /\ rpend' = IF closing THEN <<>>
                        ELSE <<Cmd("close", EchoFrame, "error_event")>>
      ]_vars

\* close() was the last call and found the connection open: closing unset,
\* the writer running, no peer Close or error handled
LocalClose ==
    /\ last_call.op = "close" /\ last_call.res = "ok"
    /\ ~last_call.closing /\ ~last_call.term /\ ~last_call.stopped

\* C7, as what holds once the writer and the reader can do nothing more:
\* after close() on an open connection, with every write completing, the
\* handle alive and room on the event channel, the writer has written a
\* Close frame and shut the write side down, and the reader has set closed
\* and emitted Closed.
C7_HandshakeCompletes ==
    (/\ LocalClose /\ ~wfail /\ upc = "idle"
     /\ Len(evlog) - nrecv < CHAN_BUF
     /\ ~ENABLED (Writer \/ Reader(CoreItems)))
        => (wshut /\ closed /\ NumClosed = 1)

\* C9: once the reader has handled a peer Close frame or detected an error,
\* no Text, Binary or Pong event is placed on the event channel.
C9_TerminalForEvents ==
    [][ (term /\ evlog' # evlog) =>
            evlog'[Len(evlog')].ev \notin {"Text", "Binary", "Pong"} ]_vars

\* payloads that are no deflate stream (7: a final block of the reserved type)
BadDeflatePayloads == {<<7>>}

\* the close code the error paths owe for the item at the head of the
\* decoder buffer (0: the item is no error)
OwedCode ==
    LET it == Head(fdbuf)
        f == it.f
        text == IF partial_msg.some THEN partial_msg.text ELSE f.op = "Text"
    IN  CASE it.k = "proto" -> ProtoError
          [] it.k = "size" -> TooBig
          [] it.k = "frame" /\ f.op \in {"Text", "Bin", "Cont"} ->
                IF partial_msg.some # (f.op = "Cont") THEN ProtoError
                ELSE IF Len(partial_msg.data) + Len(f.payload) > MAX_MESSAGE_SIZE
                     THEN TooBig
                ELSE IF ~f.fin THEN 0
                ELSE IF cfg.compressed
                     THEN IF partial_msg.data \o f.payload \in BadDeflatePayloads
                          THEN ProtoError ELSE 0
                ELSE IF text /\ ~Utf8Valid(partial_msg.data \o f.payload)
                     THEN DataError ELSE 0
          [] OTHER -> 0

\* a step in which the reader handles the item at the head of the buffer
IsHandle == AtFrame /\ fdbuf' # fdbuf

\* a step in which a send of the reader on the close channel returns
IsReaderCloseSend == rpend # <<>> /\ Head(rpend).ch = "close" /\ rpend' # rpend

Unexpected ==
    LET f == Head(fdbuf).f IN
    /\ Head(fdbuf).k = "frame"
    /\ \/ ~partial_msg.some /\ f.op = "Cont"
       \/ partial_msg.some /\ f.op \in {"Text", "Bin"}
       \/ f.op = "Cont" /\ f.rsv1

UnexpectedFrame == CloseReasonFrame(ProtoError, TxtUnexpected)

\* a step in which the reader's send of that Close returns
IsUnexpectedSend == rpend # <<>> /\ Head(rpend).item = UnexpectedFrame /\ rpend' # rpend

IsHandleData == IsHandle /\ Head(fdbuf).k = "frame" /\ ~IsControl(Head(fdbuf).f.op)

\* the message a data frame completes: the type of its first frame, and the
\* payloads of its frames so far followed by this frame's
MsgIsText(f) == IF partial_msg.some THEN partial_msg.text ELSE f.op = "Text"
MsgBytes(f) == partial_msg.data \o f.payload

\* what the caller is given of these bytes: the bytes themselves, or with
\* permessage-deflate (no context takeover) what they inflate to
MsgPayload(f) ==
    IF cfg.compressed
    THEN InflateBlocks(MsgBytes(f) \o <<0, 0, 255, 255>>, <<>>).out
    ELSE MsgBytes(f)

\* the reassembler accepts the frame: it starts a message when none is open
\* or continues the open one, and the message stays within MAX_MESSAGE_SIZE
Accepted(f) ==
    /\ partial_msg.some = (f.op = "Cont")
    /\ f.op = "Cont" => ~f.rsv1
    /\ Len(MsgBytes(f)) <= MAX_MESSAGE_SIZE

\* the message is one into_message delivers
Deliverable(f) ==
    /\ cfg.compressed => InflateBlocks(MsgBytes(f) \o <<0, 0, 255, 255>>, <<>>).ok
    /\ MsgIsText(f) => Utf8Valid(MsgPayload(f))

\* a send of the reader on the event channel
IsEventSend == rpend # <<>> /\ Head(rpend).ch = "event" /\ rpend' # rpend

C31_InflateOnlyIfRsv1 ==
    [][ (IsHandleData /\ cfg.compressed /\ ~partial_msg.some
         /\ Head(fdbuf).f.op \in {"Text", "Bin"} /\ Head(fdbuf).f.fin
         /\ ~Head(fdbuf).f.rsv1
         /\ (Head(fdbuf).f.op = "Text" => Utf8Valid(Head(fdbuf).f.payload))) =>
            rpend' = <<Cmd("event",
                           Event(IF Head(fdbuf).f.op = "Text" THEN "Text" ELSE "Binary",
                                 Head(fdbuf).f.payload), "ignore")>>
      ]_vars

\* C32: no Text or Binary event carries more than MAX_MESSAGE_SIZE bytes,
\* also when the message was compressed and only its inflated form exceeds
\* the limit.
C32_EventWithinLimit ==
    \A i \in DOMAIN evlog :
        evlog[i].ev \in {"Text", "Binary"} => Len(evlog[i].data) <= MAX_MESSAGE_SIZE

(***************************************************************************)
(* Properties of Ping, Pong and the keepalive task.                        *)
(***************************************************************************)
\* a step in which the reader handles a Ping frame
IsHandlePing == IsHandle /\ Head(fdbuf).k = "frame" /\ Head(fdbuf).f.op = "Ping"

\* a step in which the reader's send of a Pong returns
IsPongSend ==
    /\ rpend # <<>> /\ Head(rpend).ch = "ctrl" /\ Head(rpend).item.op = "Pong"
    /\ rpend' # rpend

\* C14: handling a Ping frame leaves the reader with one send, of a Pong
\* with the Ping's payload on the control channel; when that send returns
\* with the writer still running, that Pong, once, has been appended to
\* the control queue; neither step delivers an event or leaves one to send.
C14_PingAnswered ==
    [][ /\ IsHandlePing =>
            /\ rpend' = <<Cmd("ctrl", PongFrame(Head(fdbuf).f.payload), "ignore")>>
            /\ UNCHANGED <<chans, closing>>
        /\ IsPongSend =>
            /\ rpend' = <<>>
            /\ wpc = "run" => ctrl_q' = Append(ctrl_q, Head(rpend).item)
            /\ wpc = "done" => ctrl_q' = ctrl_q
            /\ UNCHANGED <<close_q, data_q, evlog>>
      ]_vars

\* the Pong for the peer's Ping was written, and the caller got no event
C14_Witness ==
    /\ Written(PongFrame(PingItem.f.payload)) /\ evlog = <<>> /\ nin = MaxIn

\* a step in which the reader handles a Pong frame
IsHandlePong == IsHandle /\ Head(fdbuf).k = "frame" /\ Head(fdbuf).f.op = "Pong"

\* the reader is left with a Pong event to send
PongEventPending(pend) == pend # <<>> /\ pend[1].ch = "event" /\ pend[1].item.ev = "Pong"

\* C15: handling a Pong leaves a Pong event to send only if its payload is
\* the nonce of an outstanding Ping (one enqueued by this endpoint and not
\* yet answered); for any other Pong there is no Pong event and the RTT
\* history is unchanged.
C15_PongOnlyForOutstanding ==
    [][ IsHandlePong /\ Head(fdbuf).f.payload \notin unanswered =>
            /\ ~PongEventPending(rpend')
            /\ UNCHANGED <<history, idx>>
      ]_vars

\* C16: at most one Ping enqueued by this endpoint (by ping() or by the
\* keepalive task) is waiting for its Pong.
C16_OnePingOutstanding == Cardinality(unanswered) <= 1

\* the keepalive task is at a wake-up (the interval has ticked)
AtTick == ppc = "tick" /\ ppend = <<>>

\* the keepalive task is left with a Ping, or with a Close, to send
PingPending(pend) == pend # <<>> /\ pend[1].ch = "ctrl" /\ pend[1].item.op = "Ping"
ClosePending(pend) == pend # <<>> /\ pend[1].ch = "close"

\* C17, where every Ping is a keepalive Ping: the keepalive task sends its
\* Close(1008) only while a keepalive Ping is unanswered; once the matching
\* Pong has been received, no wake-up sends that Close.
C17_TimeoutOnlyIfUnanswered ==
    [][ AtTick /\ ClosePending(ppend') => unanswered # {} ]_vars

\* C18, where every Ping is a keepalive Ping: at a wake-up with closing
\* unset, if the peer has been silent for the interval and no Ping is
\* outstanding, the wake-up sends a Ping; if the peer has been heard from
\* within the interval, it sends none.
C18_PingWhenIdle ==
    (AtTick /\ ~closing) =>
        /\ (unanswered = {} /\ ~PongHoldsStats) =>
               ~ENABLED (PingTick({TRUE}) /\ ~PingPending(ppend'))
        /\ ~ENABLED (PingTick({FALSE}) /\ PingPending(ppend'))

\* the steps the engine takes while the peer stays connected and sends
\* nothing: every step of its tasks but a read that returns
SilentPeerStep == Writer \/ ReaderDecode \/ ReaderChanSend \/ Keepalive(BOOLEAN)

\* C19, where close() is never called: once the handle has been dropped and
\* the tasks have taken every step they can take with the peer silent,
\* closing is set and the keepalive, writer and reader tasks have ended.
C19_TasksEndAfterDrop ==
    (upc = "dropped" /\ ~ENABLED SilentPeerStep) =>
        /\ closing
        /\ ppc = "done" /\ wpc = "done" /\ rpc = "done"

\* the frames of a sequence
Range(q) == {q[i] : i \in DOMAIN q}

\* the frames of the sends on the writer's channels that have not returned
PendingFrames(pend) == {c.item : c \in {d \in Range(pend) : d.ch # "event"}}

\* every frame the engine has enqueued, is about to enqueue, or has written
EngineFrames ==
    Range(close_q) \cup Range(ctrl_q) \cup Range(data_q) \cup Range(wire)
        \cup PendingFrames(rpend) \cup PendingFrames(ppend) \cup PendingFrames(upend)

\* the codes the engine closes with
EngineCloseCodes == {Normal, ProtoError, DataError, Policy, TooBig}

\* C20: every Close frame the engine sends, enqueues or writes carries one
\* of the codes 1000, 1002, 1007, 1008, 1009 (so never 1004, 1005, 1006 or
\* 1015), whatever code the peer's Close carried.
C20_EngineCloseCodes ==
    \A f \in EngineFrames :
        f.op = "Close" => Len(f.payload) >= 2 /\ CloseCode(f) \in EngineCloseCodes

\* a peer Close carrying a code that may not appear on the wire has been
\* handled, and its answer, a Close(1002), has been written
C20_Witness ==
    /\ nin >= 1 /\ term
    /\ Written(CloseReasonFrame(ProtoError, TxtPeerClosed))

\* the code of the Close frame the peer sent
PeerCode == dec.payload[1] * 256 + dec.payload[2]

\* C27: when the peer's Close carries 1004, 1005, 1006 or 1015, every Close
\* frame the reader sends, and so every Close frame queued or written other
\* than the one of the caller's own close(), carries 1002; and the reader
\* does send one when it handles the frame (or the decoder's error) with
\* closing unset.
C27_BadCodeAnswered1002 ==
    /\ [](PeerCode \in {Rsv, NoneGiven, Abnormal, Tls} =>
            /\ \A i \in DOMAIN rpend :
                  rpend[i].ch = "close" /\ CloseCode(rpend[i].item) = ProtoError
            /\ \A f \in Range(close_q) \cup Range(wire) :
                  f = UserCloseFrame \/ (f.op = "Close" /\ CloseCode(f) = ProtoError)
            /\ dec.out = "Complete" => PeerCode # Tls)
    /\ [][ (PeerCode \in {Rsv, NoneGiven, Abnormal, Tls} /\ AtFrame
            /\ fdbuf' # fdbuf /\ ~closing) =>
                /\ Len(rpend') = 1 /\ rpend'[1].ch = "close"
                /\ CloseCode(rpend'[1].item) = ProtoError
         ]_vars

\* a Close(1005) came in on an open connection and the Close(1002) that
\* answers it has been written
C27_Witness ==
    /\ PeerCode = NoneGiven /\ ops = 0 /\ closing
    /\ wire = <<CloseReasonFrame(ProtoError, TxtPeerClosed)>>

(***************************************************************************)
(* Properties of the data frames on the wire.                              *)
(***************************************************************************)
IsDataFrame(f) == f.op \in {"Text", "Bin", "Cont"}

\* the data frames written, in the order written
DataWire == SelectSeq(wire, IsDataFrame)

\* the frame of a fragment the history records
FragmentFrame(g) == EncodeData(g.op, g.payload)[g.i]

\* the fragment is the last one of its message
LastFragment(g) == g.i = Len(EncodeData(g.op, g.payload))

RecentRtts ==
    LET k == Len(dec.rtts)
    IN  SubSeq(dec.rtts, IF k > N THEN k - N + 1 ELSE 1, k)

\* C22: latency() returns None when no RTT has been recorded, and
\* otherwise the arithmetic mean, rounded down, of the most recent
\* min(k, 5) RTTs recorded.
C22_AverageIsMean ==
    dec.out.kind # "none" =>
        dec.out = IF dec.rtts = <<>> THEN Opt("None", 0)
                  ELSE Opt("Some", SumSeq(RecentRtts) \div Len(RecentRtts))

(***************************************************************************)
(* Properties of the server's connections.                                 *)
(***************************************************************************)
\* C23: on a connection the server accepted, peer_addr() returns the
\* address of the remote client and local_addr() the address the server
\* listens on, whenever they are called.
C23_ServerAddresses ==
    \A i \in DOMAIN dec.conns :
        /\ dec.conns[i].got_peer # NoAddr => dec.conns[i].got_peer = dec.conns[i].remote
        /\ dec.conns[i].got_local # NoAddr => dec.conns[i].got_local = dec.addr

(***************************************************************************)
(* Properties of masking.                                                  *)
(***************************************************************************)
\* C21: one application of mask sets payload[i] to payload[i] XOR
\* key[i mod 4] (and keeps the length), and a second application with the
\* same key restores the original buffer, for every length and key.
C21_MaskInvolution ==
    /\ Len(dec.buf) = Len(dec.payload)
    /\ dec.applied = 1 =>
          \A i \in 1..Len(dec.buf) :
              dec.buf[i] = Xor(dec.payload[i], dec.mask_key[((i - 1) % 4) + 1])
    /\ dec.applied = 2 => dec.buf = dec.payload

\* a buffer of 33 bytes was changed by the first application of a key and
\* restored by the second, through the AVX2 path
C21_Witness ==
    /\ dec.applied = 2 /\ dec.avx2 /\ Len(dec.payload) = 33
    /\ dec.mask_key = <<55, 250, 33, 61>>
    /\ dec.buf = dec.payload
    /\ MaskWith(TRUE, dec.payload, dec.mask_key) # dec.payload

(***************************************************************************)
(* Properties of the round trip.                                           *)
(***************************************************************************)
\* the message sent, as the event the caller should be given
RtEvent == Event(IF dec.op = "Text" THEN "Text" ELSE "Binary", dec.payload)

\* every byte has been read and the reader has nothing left to do
RtDone ==
    /\ dec.net = <<>> /\ dec.out \in {"None", "Incomplete"}
    /\ rpc = "read" /\ rpend = <<>> /\ fdbuf = <<>>

\* the round trip of a message: the decoder reports no error, the fragment
\* with fin set is the last one, the reassembler raises no error, no event
\* other than the message is delivered, and at the end the message has been
\* delivered once
RtHolds ==
    /\ dec.out \notin {"ProtoError", "SizeErr"}
    /\ dec.out = "Complete" => (dec.frame.fin <=> (dec.net = <<>> /\ dec.buf = <<>>))
    /\ ~term /\ ~closing
    /\ evlog \in {<<>>, <<RtEvent>>}
    /\ RtDone => evlog = <<RtEvent>>

\* the Text and Binary events placed on the event channel
DataEvents == SelectSeq(evlog, LAMBDA e : e.ev \in {"Text", "Binary"})

\* C29: handling a Ping or a Pong leaves the pending message as it is, so
\* "Hel" stays pending until the Continuation comes, and the message
\* delivered is Text("Hello"), once, whatever control frames came between
\* the fragments (none, one or two).
C29_ControlFramesInterleaved ==
    /\ [](/\ partial_msg.some =>
                partial_msg = [some |-> TRUE, text |-> TRUE, data |-> TextHel.f.payload]
          /\ ~term
          /\ DataEvents \in {<<>>, <<Event("Text", Hello)>>}
          /\ RtDone => DataEvents = <<Event("Text", Hello)>>)
    /\ [][ (IsHandle /\ Head(fdbuf).k = "frame"
            /\ Head(fdbuf).f.op \in {"Ping", "Pong"}) =>
                partial_msg' = partial_msg ]_vars

\* a Ping came between the fragments: it was answered and the message
\* delivered
C29_Witness ==
    /\ RtDone /\ dec.server
    /\ wire = <<PongFrame(<<1>>)>>
    /\ evlog = <<Event("Text", Hello)>>

\* the data frame at the head of the decoder buffer would take the pending
\* message over MAX_MESSAGE_SIZE
Over ==
    LET f == Head(fdbuf).f IN
    /\ Head(fdbuf).k = "frame"
    /\ partial_msg.some = (f.op = "Cont")
    /\ Len(partial_msg.data) + Len(f.payload) > MAX_MESSAGE_SIZE

TooBigFrame == CloseReasonFrame(TooBig, TxtMsgTooBig)

\* the reassembly buffer stays within MAX_MESSAGE_SIZE, and the frame that
\* would exceed it makes the reader send one Close(1009), which is
\* enqueued, and append nothing
OverRejected ==
    /\ [](Len(partial_msg.data) <= MAX_MESSAGE_SIZE)
    /\ [][ /\ (IsHandle /\ Over) =>
                /\ rpend' = <<Cmd("close", TooBigFrame, "ignore")>>
                /\ partial_msg' = partial_msg
                /\ UNCHANGED chans
           /\ (rpend # <<>> /\ Head(rpend).item = TooBigFrame /\ rpend' # rpend) =>
                /\ close_q' = Append(close_q, TooBigFrame)
                /\ evlog' = evlog
         ]_vars

\* C30: a data frame that would take the pending message over
\* MAX_MESSAGE_SIZE makes the reader enqueue a Close(1009) and append
\* nothing, so that the buffer never holds more than MAX_MESSAGE_SIZE bytes;
\* and no event is delivered for the message that was too big.
C30_MessageTooBig ==
    /\ OverRejected
    /\ [](term => DataEvents = <<>>)

\* the message is one the reassembler delivers: its payload on the wire
\* (deflated if compression is on) is at most MAX_MESSAGE_SIZE bytes long,
\* and a Text message is UTF-8
RtFits ==
    /\ dec.wire_len <= MAX_MESSAGE_SIZE
    /\ dec.op = "Text" => Utf8Valid(dec.payload)

DecodesToText(p) ==
    /\ dec.out \notin {"ProtoError", "SizeErr"}
    /\ dec.out = "Complete" =>
          /\ dec.frame = Frame("Text", TRUE, FALSE, p)
          /\ dec.net = <<>> /\ dec.buf = <<>>
    /\ ~term /\ ~closing
    /\ evlog \in {<<>>, <<Event("Text", p)>>}
    /\ RtDone => evlog = <<Event("Text", p)>>

\* C24, with the payload the bytes carry: the server-role decoder yields
\* one complete Text frame with fin set for the bytes
\* 81 85 37 FA 21 3D 7F 9F 4D 51 58, whose unmasked payload is "Hello"
\* (48 65 6C 6C 6F), and the reassembler delivers Text("Hello").
C24_HelloDecoded == DecodesToText(Hello)

\* C24 as stated: the unmasked payload is "hello" (68 65 6C 6C 6F) and
\* Text("hello") is delivered.
C24_LowercaseDecoded == DecodesToText(HelloLower)

\* the eleven bytes have been read and Text("Hello") has been delivered
C24_Witness ==
    /\ RtDone /\ dec.pushed = Len(HelloBytes) /\ dec.server
    /\ evlog = <<Event("Text", Hello)>>

(***************************************************************************)
(* Properties of the decoder.                                              *)
(***************************************************************************)
\* the length field of the frame being decoded has been decoded
LengthDecoded == dec.state \in {"Mask", "Payload"}

\* C10: a frame whose header declares more than MAX_FRAME_PAYLOAD bytes is
\* rejected as soon as its length is decoded: next_frame never returns
\* Incomplete, waiting for the payload, with such a length decoded.
C10_OversizeRejectedEarly ==
    ~(LengthDecoded /\ dec.payload_len > MAX_FRAME_PAYLOAD /\ dec.out = "Incomplete")

\* what the decoder is to make of a wire frame
FrameOf(w) == Frame(OpcodeTryFrom(w.op), w.fin, w.rsv >= 4, w.payload)

\* the wire frame is one the protocol allows this decoder to accept
WireValid(w) ==
    LET n == Len(w.payload) IN
    /\ w.rsv % 4 = 0
    /\ w.rsv >= 4 => dec.compressed
    /\ w.op \in {0, 1, 2, 8, 9, 10}
    /\ w.masked = dec.server
    /\ n <= MAX_FRAME_PAYLOAD
    /\ w.op \in {8, 9, 10} => (w.fin /\ w.rsv < 4 /\ n <= 125)
    /\ w.op = 8 =>
          \/ n = 0
          \/ /\ n >= 2
             /\ w.payload[1] * 256 + w.payload[2] \in (1000..1011) \cup (3000..4999)
             /\ Utf8Valid(SubSeq(w.payload, 3, n))

\* C33: every frame next_frame returns as Complete is the next frame of the
\* stream, unmasked, and that wire frame has RSV2 and RSV3 clear, RSV1 only
\* with compression, an assigned opcode, the MASK bit of the role, at most
\* MAX_FRAME_PAYLOAD bytes, for a control frame FIN, no RSV1 and at most
\* 125 bytes, and for a Close a valid payload.  A stream with a frame that
\* breaks one of these ends in ProtoError or SizeErr, not in a frame.
C33_CompleteIsValid ==
    /\ Len(dec.got) <= Len(dec.sent)
    /\ dec.out = "Complete" =>
          /\ WireValid(dec.sent[Len(dec.got)])
          /\ dec.frame = FrameOf(dec.sent[Len(dec.got)])
          /\ dec.got[Len(dec.got)] = dec.frame
    /\ (dec.net = <<>> /\ dec.out \in {"None", "Incomplete"}) =>
          \A k \in DOMAIN dec.sent : WireValid(dec.sent[k])

\* a server has decoded a Text frame and a Close frame with code 1000
C33_Witness ==
    /\ dec.server /\ dec.out = "Complete"
    /\ dec.got = <<Frame("Text", TRUE, FALSE, <<104>>), Frame("Close", TRUE, FALSE, <<3, 232>>)>>

\* next_frame called on a decoder until it returns something other than a
\* Complete frame: the frames returned and the last result
RECURSIVE DecodeAll(_, _)
DecodeAll(d, frames) ==
    LET r == NextFrame(d) IN
    IF r.out = "Complete" THEN DecodeAll(r, Append(frames, r.frame))
    ELSE [frames |-> frames, out |-> r.out]

\* the whole stream pushed in one call
OneShot ==
    DecodeAll([FrameDecoderNew(dec.server, dec.compressed) EXCEPT
                  !.buf = RawStream(dec.sent, Len(dec.sent))], <<>>)

\* s is the end of t
IsSuffix(s, t) == Len(s) <= Len(t) /\ s = SubSeq(t, Len(t) - Len(s) + 1, Len(t))

\* C34: however the stream is split into pushes, the frames returned so far
\* are the first frames of the one-push decoding; an error is the error of
\* the one-push decoding, after the same frames; and once every byte is
\* pushed and next_frame has returned None or Incomplete, the frames and
\* that result are those of the one-push decoding.  Short of an error, the
\* bytes buffered and in flight are the end of the stream: none is lost or
\* duplicated.
C34_ChunkIndependent ==
    /\ Len(dec.got) <= Len(OneShot.frames)
    /\ dec.got = SubSeq(OneShot.frames, 1, Len(dec.got))
    /\ (dec.out \in {"ProtoError", "SizeErr"}
          \/ (dec.net = <<>> /\ dec.out \in {"None", "Incomplete"})) =>
            (dec.got = OneShot.frames /\ dec.out = OneShot.out)
    /\ dec.out \notin {"ProtoError", "SizeErr"} =>
            IsSuffix(dec.buf \o dec.net, RawStream(dec.sent, Len(dec.sent)))

\* a server was left with three of the four bytes of the second frame's
\* masking key
C34_Witness ==
    /\ dec.server /\ dec.out = "Incomplete" /\ dec.state = "Mask"
    /\ Len(dec.buf) = 3 /\ Len(dec.got) = 1

\* the frame the decoder is at, and whether every byte of it was pushed
AtSent == Len(dec.got) + 1
HoldsNextFrame ==
    /\ dec.out \in {"pushed", "Complete"}
    /\ AtSent <= Len(dec.sent)
    /\ dec.pushed >= Len(RawStream(dec.sent, AtSent))

\* C35: when every byte of the next frame is in the decoder, next_frame does
\* not return Incomplete (nor None): it returns an error, or Complete with
\* that frame's opcode, FIN and RSV1 flags and its payload unmasked.
C35_WholeFrameDecoded ==
    [][ HoldsNextFrame =>
            /\ dec'.out \in {"Complete", "ProtoError", "SizeErr"}
            /\ dec'.out = "Complete" => dec'.frame = FrameOf(dec.sent[AtSent])
      ]_vars

\* a client got both frames in its buffer and has decoded the second, a
\* Ping, right after the first
C35_Witness ==
    /\ ~dec.server /\ dec.out = "Complete" /\ dec.net = <<>> /\ dec.buf = <<>>
    /\ dec.pushed = 6
    /\ dec.got = <<Frame("Text", TRUE, FALSE, <<104>>), Frame("Ping", TRUE, FALSE, <<1>>)>>

\* the arm of next_frame's loop for the decoder's state
Arm(d) ==
    CASE d.state = "Header1" -> ParseHeader1(d)
      [] d.state = "Header2" -> ParseHeader2(d)
      [] d.state = "ExtendedLen" -> ParseExtendedLen(d)
      [] d.state = "Mask" -> ParseMask(d)
      [] d.state = "Payload" -> ParsePayload(d)

\* the states whose arms one call of next_frame runs, in order
RECURSIVE Visited(_)
Visited(d) ==
    IF Arm(d).ret = "go" THEN <<d.state>> \o Visited(Arm(d).d) ELSE <<d.state>>

StateRank(st) ==
    CASE st = "Header1" -> 1 [] st = "Header2" -> 2 [] st = "ExtendedLen" -> 3
      [] st = "Mask" -> 4 [] st = "Payload" -> 5

\* C36: from every state that pushes of arbitrary bytes and calls of
\* next_frame lead to, a call of next_frame runs each of the arms Header1,
\* Header2, ExtendedLen, Mask, Payload at most once, in that order, and
\* returns Complete, Incomplete, None or an error; None only on an empty
\* buffer; and it takes its bytes from the front of the buffer, never more
\* than there are (a SizeErr clears the buffer).
C36_NextFrameTerminates ==
    LET v == Visited(dec)
        r == NextFrame(dec)
    IN  /\ Len(v) <= 5
        /\ \A i \in 1..(Len(v) - 1) : StateRank(v[i]) < StateRank(v[i + 1])
        /\ r.out \in {"Complete", "Incomplete", "None", "ProtoError", "SizeErr"}
        /\ r.out = "None" => dec.buf = <<>>
        /\ IF r.out = "SizeErr" THEN r.buf = <<>> ELSE IsSuffix(r.buf, dec.buf)
        /\ r.out = "Complete" =>
              Len(dec.buf) - Len(r.buf) >= Len(r.frame.payload)

\* a call has returned a frame to a client, and the next call decodes a
\* frame from its first byte through the 16-bit length to the payload,
\* with bytes to spare
C36_Witness ==
    /\ ~dec.server /\ dec.out = "Complete" /\ dec.state = "Header1"
    /\ Visited(dec) = <<"Header1", "Header2", "ExtendedLen", "Payload">>
    /\ NextFrame(dec).out = "Complete" /\ NextFrame(dec).buf # <<>>

\* the payload DataFrame::encode cuts into frames: the input, or what the
\* deflater made of it
EncInput == WirePayload(dec.payload, dec.compressed, dec.again)

\* C37: the frames of DataFrame::encode are at least one; their payloads in
\* order are the (deflated) input; none is longer than MAX_FRAME_PAYLOAD;
\* the first has the opcode of the message and the later ones are
\* continuations; FIN is on the last frame only; RSV1 is on the first
\* frame exactly when the message was deflated, and on no later frame.
C37_EncodeFrames ==
    (dec.state = "enc" /\ dec.done) =>
        LET fs == dec.frames IN
        /\ Len(fs) >= 1
        /\ Flatten([i \in DOMAIN fs |-> fs[i].payload]) = EncInput
        /\ \A i \in DOMAIN fs :
              /\ Len(fs[i].payload) <= MAX_FRAME_PAYLOAD
              /\ fs[i].op = (IF i = 1 THEN dec.op ELSE "Cont")
              /\ fs[i].fin = (i = Len(fs))
              /\ fs[i].rsv1 = (i = 1 /\ dec.compressed)

\* a deflated message of three frames has been encoded
C37_Witness ==
    /\ dec.state = "enc" /\ dec.done /\ dec.compressed
    /\ Len(dec.frames) = 3 /\ dec.frames[1].rsv1 /\ dec.frames[3].fin

\* C38: DataFrame::encode makes max(1, ceil(len / MAX_FRAME_PAYLOAD)) frames
\* of a payload of len bytes: a payload of a whole number of chunks ends
\* with its last full chunk, and no empty continuation follows it.
C38_FrameCount ==
    (dec.state = "enc" /\ dec.done) =>
        LET len == Len(EncInput)
            ceil == (len + MAX_FRAME_PAYLOAD - 1) \div MAX_FRAME_PAYLOAD
        IN  Len(dec.frames) = (IF ceil < 1 THEN 1 ELSE ceil)
\* the frame at the head of the decoder buffer is a Pong carrying the
\* nonce of the last Ping
MatchingPong ==
    LET f == Head(fdbuf).f IN
    /\ Head(fdbuf).k = "frame" /\ f.op = "Pong"
    /\ Len(f.payload) = 8 /\ f.payload = last_nonce

LatePongFrame == CloseReasonFrame(Policy, TxtPingTimeout)

\* a step in which the reader's send of the Close of a late Pong returns
IsLatePongSend == rpend # <<>> /\ Head(rpend).item = LatePongFrame /\ rpend' # rpend

\* C39, with the writer running: a Pong carrying the nonce of the last Ping
\* is either in time, and then its latency is recorded and a Pong event is
\* sent, or late (more than 65535 ms), and then nothing is recorded, no
\* event is sent and the reader sends one Close(1008) to the close queue;
\* the Close is enqueued if the writer task is still running and dropped
\* if it has stopped.
C39_LatePong ==
    [][ /\ (IsHandle /\ MatchingPong) =>
            \/ /\ rpend' = <<Cmd("close", LatePongFrame, "ignore")>>
               /\ history' = history /\ idx' = idx
               /\ UNCHANGED chans
            \/ /\ Len(rpend') = 1 /\ rpend'[1].ch = "event"
               /\ rpend'[1].item.ev = "Pong"
               /\ history'[idx + 1] = rpend'[1].item.data[1]
               /\ UNCHANGED chans
        /\ IsLatePongSend =>
            /\ close_q' = IF wpc = "done" THEN close_q
                          ELSE Append(close_q, LatePongFrame)
            /\ rpend' = <<>>
            /\ UNCHANGED <<ctrl_q, data_q, evlog, history, idx>>
      ]_vars

\* C39 as stated: the Close(1008) of a late Pong of a Ping that was issued
\* is enqueued.
C39_LatePongEnqueued ==
    [][ (IsLatePongSend /\ last_nonce # ZeroNonce) =>
            close_q' = Append(close_q, LatePongFrame) ]_vars

\* a Ping was written, its Pong came late, and the Close(1008) was written
\* with no latency recorded and no Pong event
C39_Witness ==
    /\ \E i \in DOMAIN wire : wire[i].op = "Ping" /\ wire[i].payload = last_nonce
    /\ Written(LatePongFrame)
    /\ \A i \in DOMAIN history : history[i] = -1
    /\ \A i \in DOMAIN evlog : evlog[i].ev # "Pong"
\* C40: whenever a Close frame has been enqueued on the close queue, by
\* close(), by the reader answering a Close or an error, by the keepalive
\* task on a timeout or by the reader on a late Pong, the closing flag is
\* true.
C40_ClosingWhenEnqueued ==
    (close_q # <<>> \/ \E i \in DOMAIN wire : wire[i].op = "Close") => closing
====
